---- MODULE Spec2Model ----
(***************************************************************************)
(* Semantic search engine of the MCP server: the FAISS-backed vector store *)
(* (FaissStore), the services that keep it in step with the repositories,  *)
(* and the search orchestrator (SearchService).                            *)
(*                                                                         *)
(* Conventions.                                                            *)
(*  - Texts, names, tags and queries are sequences of one-character        *)
(*    strings, so that lower() and the substring test are computed.        *)
(*  - Entity ids are opaque strings.                                       *)
(*  - Unbounded integers (uuid ints, vector ids) are sequences of decimal  *)
(*    digits, most significant first, without leading zeros.               *)
(*  - An int64 held by the index is [neg, mag]: sign and magnitude.        *)
(*  - Scores are kept in hundredths (0.5 is 50).                           *)
(***************************************************************************)
EXTENDS Integers, Sequences, FiniteSets, TLC

----------------------------------------------------------------------------
(* Decimal arithmetic on digit sequences *)

\* without leading zeros
Strip(d) ==
    IF \A i \in DOMAIN d : d[i] = 0 THEN <<0>>
    ELSE LET first == CHOOSE i \in DOMAIN d :
                         d[i] # 0 /\ \A j \in 1..(i - 1) : d[j] = 0
         IN  SubSeq(d, first, Len(d))

\* a < b on the digits from position i on, for a and b of one length
LessFrom(a, b, i) ==
    \E j \in i..Len(a) :
        a[j] < b[j] /\ \A k \in i..(j - 1) : a[k] = b[k]

Geq(a, b) ==
    IF Len(a) # Len(b) THEN Len(a) > Len(b) ELSE ~LessFrom(a, b, 1)

\* a - b for a >= b
Sub(a, b) ==
    LET n == Len(a)
        bp == [i \in 1..n |-> IF i > n - Len(b) THEN b[i - (n - Len(b))] ELSE 0]
        borrow(i) == IF LessFrom(a, bp, i + 1) THEN 1 ELSE 0
    IN  Strip([i \in 1..n |-> (a[i] - bp[i] - borrow(i) + 10) % 10])

\* 2 * a
Double(a) ==
    LET n == Len(a)
        carry(i) == IF i < n /\ a[i + 1] >= 5 THEN 1 ELSE 0
        low == [i \in 1..n |-> (2 * a[i] + carry(i)) % 10]
    IN  IF a[1] >= 5 THEN <<1>> \o low ELSE low

\* acc * 2**n
RECURSIVE TimesTwoPow(_, _)
TimesTwoPow(acc, n) ==
    IF n = 0 THEN acc
    ELSE LET d == Double(acc)
         IN  IF Len(d) > 0 THEN TimesTwoPow(d, n - 1) ELSE d

TwoPow(n) == TimesTwoPow(<<1>>, n)

RECURSIVE Reduce(_, _)
Reduce(r, m) ==
    IF Geq(r, m)
    THEN LET d == Sub(r, m) IN IF Len(d) > 0 THEN Reduce(d, m) ELSE d
    ELSE r

\* x % m by long division, most significant digit first; r is the remainder of
\* the digits consumed so far
RECURSIVE ModFrom(_, _, _, _)
ModFrom(x, i, r, m) ==
    IF i > Len(x) THEN r
    ELSE LET nr == Reduce(Strip(Append(r, x[i])), m)
         IN  IF Len(nr) > 0 THEN ModFrom(x, i + 1, nr, m) ELSE nr

Mod(x, m) == ModFrom(x, 1, <<0>>, m)

\* str(int) for a non-negative int given by its digits
DigitChar == <<"0", "1", "2", "3", "4", "5", "6", "7", "8", "9">>

RECURSIVE DigitsToStr(_)
DigitsToStr(d) ==
    IF d = <<>> THEN "" ELSE DigitChar[d[1] + 1] \o DigitsToStr(Tail(d))

\* str() of an int64 held by the index
int64_str(v) == IF v.neg THEN "-" \o DigitsToStr(v.mag) ELSE DigitsToStr(v.mag)

Int64(d) == [neg |-> FALSE, mag |-> d]

\* the label faiss puts in the unused slots of a search result
MinusOne == [neg |-> TRUE, mag |-> <<1>>]

----------------------------------------------------------------------------
(* Vector ids *)

VectorTarget == {"resource", "tool"}

\* the (type, id) pairs the store is driven with: one textual id under both
\* types, and a second id
StoreKeys == {<<"resource", "x">>, <<"tool", "x">>, <<"resource", "y">>}

\* uuid.uuid5(uuid.uuid5(NAMESPACE_DNS, "smart-mcp::" + item_type), entity_id).int,
\* tabulated for the ids of the model (SHA-1 is not recomputed here)
Uuid5Table ==
    <<"resource", "x">> :> <<1,9,9,5,5,3,7,8,9,9,0,8,3,1,5,1,5,4,9,6,2,7,8,4,0,7,7,9,7,3,7,7,6,4,4,7,7,9,0>> @@
    <<"resource", "y">> :> <<7,2,9,7,3,4,1,0,5,0,1,4,8,3,0,9,1,7,0,6,5,9,4,1,0,9,2,7,7,9,0,5,8,4,4,8,8,2>> @@
    <<"resource", "resource_00000001">> :> <<1,4,8,1,7,4,4,5,8,6,1,9,5,5,0,9,1,1,1,0,5,2,3,9,1,3,9,2,4,5,7,2,5,8,7,7,2,8,5>> @@
    <<"resource", "resource_00000002">> :> <<1,7,8,2,5,4,4,8,3,5,3,0,5,9,6,4,3,6,3,7,7,5,1,8,3,8,5,3,2,9,4,0,8,6,8,1,1,0,4>> @@
    <<"resource", "tool_00000001">> :> <<2,0,4,3,0,6,9,4,9,9,1,9,9,7,5,8,3,0,9,9,0,6,0,9,1,3,1,9,5,5,3,2,7,8,5,6,2,9,3>> @@
    <<"resource", "tool_00000002">> :> <<1,1,1,4,5,5,8,6,5,7,9,4,1,5,4,0,2,2,2,3,7,7,6,5,6,0,4,9,6,3,5,4,2,8,9,9,7,8,5>> @@
    <<"prompt", "prompt_00000001">> :> <<1,6,9,9,9,4,2,8,7,4,9,2,1,6,3,5,8,8,5,8,1,1,3,1,4,4,7,8,9,3,1,3,6,8,7,5,7,5,8>> @@
    <<"prompt", "prompt_00000002">> :> <<3,0,7,6,8,3,6,7,7,3,1,7,1,1,1,4,7,2,4,1,7,9,7,1,4,3,1,9,6,0,8,9,2,7,3,7,5,6,8>> @@
    <<"tool", "x">> :> <<1,2,1,8,7,6,3,4,0,0,5,5,8,0,7,9,4,8,5,7,1,0,6,1,8,8,9,8,2,1,1,5,7,4,5,1,5,6,6>> @@
    <<"tool", "y">> :> <<2,3,9,3,4,7,6,1,4,1,8,6,9,7,8,1,4,0,9,7,1,7,6,9,7,2,7,2,1,9,2,6,5,1,6,3,5,1,4>> @@
    <<"tool", "resource_00000001">> :> <<1,5,5,0,0,1,0,8,3,9,0,5,2,2,0,0,7,3,8,4,4,8,0,7,5,7,9,3,0,9,5,3,1,4,4,7,6,8>> @@
    <<"tool", "resource_00000002">> :> <<3,3,8,0,8,1,5,8,1,8,4,8,6,9,5,3,2,7,4,5,3,2,4,0,0,9,9,1,4,8,3,1,1,8,9,2,0,7,3>> @@
    <<"tool", "tool_00000001">> :> <<2,5,1,2,5,3,5,4,2,6,9,9,8,9,0,0,6,1,7,1,2,0,8,9,4,4,5,6,1,0,8,1,8,5,5,9,2,1,8>> @@
    <<"tool", "tool_00000002">> :> <<2,3,9,1,9,5,0,8,3,2,7,3,6,8,1,5,3,9,1,7,4,4,1,0,2,6,2,0,6,1,8,6,4,6,8,3,0,7,0>>

\* the same with a namespace that ignores the type:
\* uuid.uuid5(uuid.uuid5(NAMESPACE_DNS, "smart-mcp"), entity_id).int
Uuid5TableNoType ==
    "x" :> <<1,8,2,5,4,3,9,9,1,6,8,3,2,2,5,6,2,2,6,0,0,3,8,2,0,3,2,1,0,0,6,7,9,7,6,6,7,9,9>> @@
    "y" :> <<1,2,2,7,8,4,8,6,4,6,7,4,3,0,2,7,5,7,4,6,1,8,8,5,2,1,1,1,1,4,5,1,5,3,4,6,4,3,1>> @@
    "resource_00000001" :> <<3,3,5,2,1,9,4,5,7,3,9,7,8,4,5,4,5,4,6,0,0,5,6,0,2,8,5,5,9,0,8,4,0,0,4,4,9,7,5>> @@
    "resource_00000002" :> <<6,1,2,1,0,1,8,2,3,4,0,4,6,8,6,2,2,7,6,4,9,0,6,0,2,4,8,2,5,0,1,6,0,6,9,1,6,9>> @@
    "tool_00000001" :> <<2,0,2,8,5,3,7,4,9,1,5,5,1,9,7,3,4,9,8,3,6,8,3,3,6,4,6,6,2,3,1,3,5,6,7,2,6,9,4>> @@
    "tool_00000002" :> <<7,4,0,1,3,5,5,0,5,7,8,5,5,3,4,5,5,0,7,2,5,1,8,7,2,4,8,2,3,5,8,1,7,3,0,5,1,1>>

uuid5_int(item_type, entity_id) == Uuid5Table[<<item_type, entity_id>>]

\* 2**63 - 1
VectorIdModulus == Sub(TwoPow(63), <<1>>)

_vector_id_no_type(item_type, entity_id) ==
    Int64(Mod(Uuid5TableNoType[entity_id], VectorIdModulus))

\* _vector_id without the reduction modulo 2**63 - 1
_vector_id_unreduced(item_type, entity_id) ==
    Int64(uuid5_int(item_type, entity_id))

_vector_id(item_type, entity_id) ==
    Int64(Mod(uuid5_int(item_type, entity_id), VectorIdModulus))

\* the ids services give to new rows: _ensure_id(prefix), "<prefix>_<8 hex digits>"
ResourceIds == {"resource_00000001"}
ToolIds == {"tool_00000001"}
PromptIds == {"prompt_00000001", "prompt_00000002"}

\* the (type, id) pairs of the model
Keys == StoreKeys \cup ({"resource"} \X ResourceIds) \cup ({"tool"} \X ToolIds)

\* the textual ids of the model
TextualIds == {k[2] : k \in Keys}

\* _vector_id and str(), evaluated once for the pairs and the ids of the model
VectorIdTable == {<<k, _vector_id(k[1], k[2])>> : k \in VectorTarget \X TextualIds}

VectorIds(item_type, entity_id) ==
    (CHOOSE p \in VectorIdTable : p[1] = <<item_type, entity_id>>)[2]

StrTable == {<<p[2], int64_str(p[2])>> : p \in VectorIdTable} \cup
            {<<MinusOne, int64_str(MinusOne)>>}

str(v) == (CHOOSE p \in StrTable : p[1] = v)[2]

----------------------------------------------------------------------------
(* Strings *)

LowerChar(c) ==
    CASE c = "A" -> "a"
      [] c = "B" -> "b"
      [] c = "C" -> "c"
      [] OTHER -> c

\* str.lower()
lower(s) == [i \in DOMAIN s |-> LowerChar(s[i])]

\* Python's `needle in hay` on strings
Contains(needle, hay) ==
    \E i \in 0..(Len(hay) - Len(needle)) :
        SubSeq(hay, i + 1, i + Len(needle)) = needle

----------------------------------------------------------------------------
(* Embedder *)

\* Stand-in for SentenceTransformer.encode(normalize_embeddings=True): a fixed
\* function of the text alone.  The vectors all have the same length; they are
\* written as the unit vector's components times sqrt(2).
embed_texts(text) ==
    LET letters == {LowerChar(text[i]) : i \in DOMAIN text}
    IN  IF "a" \in letters /\ "b" \in letters THEN <<1, 1, 0>>
        ELSE IF "a" \in letters THEN <<1, 0, 1>>
        ELSE IF "b" \in letters THEN <<0, 1, 1>>
        ELSE <<-1, 0, -1>>

RECURSIVE Dot(_, _)
Dot(a, b) ==
    IF a = <<>> THEN 0 ELSE a[1] * b[1] + Dot(Tail(a), Tail(b))

\* IndexFlatIP's metric on two unit vectors, in hundredths
InnerProduct(a, b) == 50 * Dot(a, b)

----------------------------------------------------------------------------
(* faiss.IndexIDMap(faiss.IndexFlatIP(dim)): the stored vectors in insertion  *)
(* order, each with its int64 id.                                            *)

EmptyIndex == <<>>

remove_ids(idx, ids) ==
    SelectSeq(idx, LAMBDA r : r.id \notin ids)

add_with_ids(idx, embedding, id) ==
    Append(idx, [id |-> id, vec |-> embedding])

ntotal(idx) == Len(idx)

Permutations1(n) ==
    {p \in [1..n -> 1..n] : \A i, j \in 1..n : i # j => p[i] # p[j]}

\* what an unused slot of a result holds
Pad == [id |-> MinusOne, score |-> -100000]

\* index.search(query_vec, k): the k best entries by descending inner product,
\* padded up to k.  The order among equal scores is the library's own, so every
\* order is a possible outcome.
index_search(idx, query_vec, k) ==
    LET n == Len(idx)
        sc(i) == InnerProduct(query_vec, idx[i].vec)
        ranked == {p \in Permutations1(n) :
                      \A i \in 1..(n - 1) : sc(p[i]) >= sc(p[i + 1])}
    IN  {[i \in 1..k |->
             IF i <= n THEN [id |-> idx[p[i]].id, score |-> sc(p[i])] ELSE Pad]
         : p \in ranked}

\* faiss.write_index / faiss.read_index: the file holds the count, the id map
\* and the vector block
NoFile == [exists |-> FALSE, data |-> <<>>]

write_index(idx) ==
    [exists |-> TRUE,
     data |-> [ntotal |-> Len(idx),
               id_map |-> [i \in 1..Len(idx) |-> idx[i].id],
               xb |-> [i \in 1..Len(idx) |-> idx[i].vec]]]

read_index(file) ==
    [i \in 1..file.data.ntotal |->
        [id |-> file.data.id_map[i], vec |-> file.data.xb[i]]]

----------------------------------------------------------------------------
(* The catalog: a dict from str(vector_id) to {type, entity_id} *)

EmptyDict == [k \in {} |-> [type |-> "", entity_id |-> ""]]

DictPut(d, k, v) == (k :> v) @@ d

\* dict.pop(k, None)
DictPop(d, k) == [j \in DOMAIN d \ {k} |-> d[j]]

\* json.dumps of the catalog: one member per key
json_dumps(d) ==
    [exists |-> TRUE,
     data |-> {<<k, d[k].type, d[k].entity_id>> : k \in DOMAIN d}]

\* json.loads of the metadata file
json_loads(file) ==
    [k \in {m[1] : m \in file.data} |->
        LET m == CHOOSE m \in file.data : m[1] = k
        IN  [type |-> m[2], entity_id |-> m[3]]]

----------------------------------------------------------------------------
(* State *)

VARIABLES
    index,      \* FaissStore.index, in memory
    meta,       \* FaissStore.meta, in memory
    indexFile,  \* the file at index_path
    metaFile,   \* the file at meta_path
    prompts,    \* rows of the prompt table, in listing order
    resources,  \* rows of the resource table, by id
    tools,      \* rows of the tool table, by id
    upserted,   \* history: the text last upserted under each (type, id), if indexed
    last,       \* the last call made and what it returned
    raised,     \* the exception the last call raised, or NoError
    now,        \* the clock _now() reads
    threads     \* the call each request thread is in, and where in it

vars == <<index, meta, indexFile, metaFile, prompts, resources, tools, upserted, last,
          raised, now, threads>>

storeVars == <<index, meta, indexFile, metaFile>>
repoVars == <<prompts, resources, tools>>

None == "None"

\* the texts entities are indexed with, and the queries
Texts == { <<"A", "b">>, <<"a">>, <<"c">> }

Queries == { <<"A", "b">>, <<"a">> }

\* the largest limit a search is called with
MaxLimit == 3

\* the last instant of the clock
MaxClock == 1

Limits == 1..MaxLimit

NotIndexed == [present |-> FALSE, text |-> <<>>]

\* result: the list a call returned, or the one value it returned in a list,
\* None being the empty list;
\* prev: what `upserted` held for the key of the call before the call;
\* writes_done: how many of its file writes a call that died had made
NoCall == [op |-> "none", item_type |-> None, entity_id |-> "", text |-> <<>>,
           limit |-> 0, result |-> <<>>, prev |-> NotIndexed, writes_done |-> 0]

NoError == "none"

\* the request threads that share the FaissStore
Threads == {1, 2}

\* a thread that is in no call of the store.  Of a thread in a call: pc, the
\* statement it runs next; prev, whether the index held its (type, id) when
\* the call began; raw, what index.search gave it
NoThread == [op |-> "idle", pc |-> "idle", item_type |-> None, entity_id |-> "",
             text |-> <<>>, limit |-> 0, prev |-> FALSE, raw |-> <<>>]

----------------------------------------------------------------------------
(* FaissStore *)

_persist_index(idx) == write_index(idx)

_persist_meta(m) == json_dumps(m)

_load_index(file) == IF file.exists THEN read_index(file) ELSE EmptyIndex

_load_meta(file) == IF file.exists THEN json_loads(file) ELSE EmptyDict

\* FaissStore(): load both files; a missing index file is created
FaissStore_init ==
    /\ index' = _load_index(indexFile)
    /\ indexFile' = IF indexFile.exists THEN indexFile ELSE _persist_index(EmptyIndex)
    /\ meta' = _load_meta(metaFile)
    /\ metaFile' = metaFile

\* add_or_update without the remove_ids call
add_or_update_no_remove(item_type, entity_id, txt) ==
    LET vector_id == VectorIds(item_type, entity_id)
        added == add_with_ids(index, embed_texts(txt), vector_id)
        newmeta == DictPut(meta, str(vector_id),
                           [type |-> item_type, entity_id |-> entity_id])
    IN  /\ index' = added
        /\ meta' = newmeta
        /\ indexFile' = _persist_index(added)
        /\ metaFile' = _persist_meta(newmeta)
        /\ raised' = NoError

\* add_or_update with the index persisted before add_with_ids
add_or_update_persist_early(item_type, entity_id, txt) ==
    LET vector_id == VectorIds(item_type, entity_id)
        removed == remove_ids(index, {vector_id})
        added == add_with_ids(removed, embed_texts(txt), vector_id)
        newmeta == DictPut(meta, str(vector_id),
                           [type |-> item_type, entity_id |-> entity_id])
    IN  /\ index' = added
        /\ meta' = newmeta
        /\ indexFile' = _persist_index(removed)
        /\ metaFile' = _persist_meta(newmeta)
        /\ raised' = NoError

add_or_update(item_type, entity_id, txt) ==
    LET vector_id == VectorIds(item_type, entity_id)
        removed == remove_ids(index, {vector_id})
        added == add_with_ids(removed, embed_texts(txt), vector_id)
        newmeta == DictPut(meta, str(vector_id),
                           [type |-> item_type, entity_id |-> entity_id])
    IN  /\ index' = added
        /\ meta' = newmeta
        /\ indexFile' = _persist_index(added)
        /\ metaFile' = _persist_meta(newmeta)
        /\ raised' = NoError

\* delete without the meta.pop call
delete_keep_meta(item_type, entity_id) ==
    LET vector_id == VectorIds(item_type, entity_id)
        removed == remove_ids(index, {vector_id})
    IN  /\ index' = removed
        /\ meta' = meta
        /\ indexFile' = _persist_index(removed)
        /\ metaFile' = _persist_meta(meta)
        /\ raised' = NoError

\* delete with meta.pop(key) instead of meta.pop(key, None): a missing key
\* raises KeyError before anything is persisted
delete_pop_strict(item_type, entity_id) ==
    LET vector_id == VectorIds(item_type, entity_id)
        removed == remove_ids(index, {vector_id})
        newmeta == DictPop(meta, str(vector_id))
    IN  IF str(vector_id) \in DOMAIN meta
        THEN /\ index' = removed
             /\ meta' = newmeta
             /\ indexFile' = _persist_index(removed)
             /\ metaFile' = _persist_meta(newmeta)
             /\ raised' = NoError
        ELSE /\ index' = removed
             /\ raised' = "KeyError"
             /\ UNCHANGED <<meta, indexFile, metaFile>>

delete(item_type, entity_id) ==
    LET vector_id == VectorIds(item_type, entity_id)
        removed == remove_ids(index, {vector_id})
        newmeta == DictPop(meta, str(vector_id))
    IN  /\ index' = removed
        /\ meta' = newmeta
        /\ indexFile' = _persist_index(removed)
        /\ metaFile' = _persist_meta(newmeta)
        /\ raised' = NoError

\* the loop of FaissStore.search without the item_type test
search_hits_no_filter(raw, m, item_type) ==
    LET keep(r) ==
            /\ r.id # MinusOne
            /\ str(r.id) \in DOMAIN m
        kept == SelectSeq(raw, keep)
    IN  [i \in 1..Len(kept) |->
            [entity_id |-> m[str(kept[i].id)].entity_id,
             score |-> kept[i].score,
             type |-> m[str(kept[i].id)].type]]

\* the loop of FaissStore.search with each hit put at the front of the list
search_hits_prepended(raw, m, item_type) ==
    LET keep(r) ==
            /\ r.id # MinusOne
            /\ str(r.id) \in DOMAIN m
            /\ ~(item_type # None /\ item_type # m[str(r.id)].type)
        kept == SelectSeq(raw, keep)
        n == Len(kept)
    IN  [i \in 1..n |->
            [entity_id |-> m[str(kept[n + 1 - i].id)].entity_id,
             score |-> kept[n + 1 - i].score,
             type |-> m[str(kept[n + 1 - i].id)].type]]

\* the loop of FaissStore.search with an id the catalog does not know reported
\* as a hit without entity
search_hits_keep_stale(raw, m, item_type) ==
    LET known(r) == str(r.id) \in DOMAIN m
        keep(r) ==
            /\ r.id # MinusOne
            /\ ~(known(r) /\ item_type # None /\ item_type # m[str(r.id)].type)
        kept == SelectSeq(raw, keep)
    IN  [i \in 1..Len(kept) |->
            [entity_id |-> IF known(kept[i]) THEN m[str(kept[i].id)].entity_id ELSE "",
             score |-> kept[i].score,
             type |-> IF known(kept[i]) THEN m[str(kept[i].id)].type ELSE None]]

\* the loop of FaissStore.search over one result of index.search
search_hits(raw, m, item_type) ==
    LET keep(r) ==
            /\ r.id # MinusOne
            /\ str(r.id) \in DOMAIN m
            /\ ~(item_type # None /\ item_type # m[str(r.id)].type)
        kept == SelectSeq(raw, keep)
    IN  [i \in 1..Len(kept) |->
            [entity_id |-> m[str(kept[i].id)].entity_id,
             score |-> kept[i].score,
             type |-> m[str(kept[i].id)].type]]

\* FaissStore.search without its early return
search_embeds_always(idx) == TRUE

\* whether FaissStore.search gets past its early return and embeds the query
search_embeds(idx) == ntotal(idx) # 0

\* FaissStore.search on the store (idx, m): every list it can return
search(idx, m, query, limit, item_type) ==
    IF ~search_embeds(idx) THEN { <<>> }
    ELSE {search_hits(raw, m, item_type) :
             raw \in index_search(idx, embed_texts(query), limit)}

----------------------------------------------------------------------------
(* Calls on the store *)

Init ==
    /\ index = EmptyIndex
    /\ meta = EmptyDict
    /\ indexFile = _persist_index(EmptyIndex)
    /\ metaFile = NoFile
    /\ prompts = <<>>
    /\ resources = EmptyDict
    /\ tools = EmptyDict
    /\ upserted = [k \in Keys |-> NotIndexed]
    /\ last = NoCall
    /\ raised = NoError
    /\ now = 0
    /\ threads = [t \in Threads |-> NoThread]

AddOrUpdate ==
    \E key \in StoreKeys, txt \in Texts :
      LET item_type == key[1]
          entity_id == key[2]
      IN
        /\ add_or_update(item_type, entity_id, txt)
        /\ upserted' = [upserted EXCEPT ![<<item_type, entity_id>>] =
                            [present |-> TRUE, text |-> txt]]
        /\ last' = [NoCall EXCEPT !.op = "add_or_update", !.item_type = item_type,
                                  !.entity_id = entity_id, !.text = txt,
                                  !.prev = upserted[key]]
        /\ UNCHANGED <<repoVars, now, threads>>

Delete ==
    \E key \in StoreKeys :
      LET item_type == key[1]
          entity_id == key[2]
      IN
        /\ delete(item_type, entity_id)
        /\ upserted' = [upserted EXCEPT ![<<item_type, entity_id>>] = NotIndexed]
        /\ last' = [NoCall EXCEPT !.op = "delete", !.item_type = item_type,
                                  !.entity_id = entity_id, !.prev = upserted[key]]
        /\ UNCHANGED <<repoVars, now, threads>>

Search ==
    \E query \in Queries, limit \in Limits, item_type \in VectorTarget \cup {None} :
        \E result \in search(index, meta, query, limit, item_type) :
            /\ last' = [NoCall EXCEPT !.op = "search", !.item_type = item_type,
                                      !.text = query, !.limit = limit,
                                      !.result = result]
            /\ raised' = NoError
            /\ UNCHANGED <<storeVars, repoVars, upserted, now, threads>>

\* FaissStore.search when the embedding model is unavailable: embed_texts raises
SearchRaises ==
    \E query \in Queries, limit \in Limits, item_type \in VectorTarget \cup {None} :
        /\ search_embeds(index)
        /\ last' = [NoCall EXCEPT !.op = "search", !.item_type = item_type,
                                  !.text = query, !.limit = limit]
        /\ raised' = "EmbeddingFailure"
        /\ UNCHANGED <<storeVars, repoVars, upserted, now, threads>>

\* the process ends and a new one constructs its FaissStore on the same files
Restart ==
    /\ FaissStore_init
    /\ last' = [NoCall EXCEPT !.op = "restart"]
    /\ raised' = NoError
    /\ UNCHANGED <<repoVars, upserted, now, threads>>

Next == AddOrUpdate \/ Delete \/ Search \/ SearchRaises \/ Restart

Spec == Init /\ [][Next]_vars

----------------------------------------------------------------------------
(* A crash inside add_or_update *)

\* the writes at the end of add_or_update, catalog first
persist_writes_meta_first(idx, m) ==
    << [file |-> "meta", content |-> _persist_meta(m)],
       [file |-> "index", content |-> _persist_index(idx)] >>

\* the writes at the end of add_or_update, in the order it makes them:
\* _persist_index, then _persist_meta
persist_writes(idx, m) ==
    << [file |-> "index", content |-> _persist_index(idx)],
       [file |-> "meta", content |-> _persist_meta(m)] >>

\* what a file holds once the first n of the writes are done
file_after(name, old, writes, n) ==
    LET done == {i \in 1..n : writes[i].file = name}
    IN  IF done = {} THEN old
        ELSE writes[CHOOSE i \in done : \A j \in done : j <= i].content

\* The process dies inside add_or_update with n of its two writes done (0:
\* before the first, 1: between them, 2: after the second, before returning).
\* What it held in memory is lost; the process that replaces it constructs its
\* FaissStore from the files left.
AddOrUpdateCrash ==
    \E key \in StoreKeys, txt \in Texts, n \in 0..2 :
      LET item_type == key[1]
          entity_id == key[2]
          vector_id == VectorIds(item_type, entity_id)
          removed == remove_ids(index, {vector_id})
          added == add_with_ids(removed, embed_texts(txt), vector_id)
          newmeta == DictPut(meta, str(vector_id),
                             [type |-> item_type, entity_id |-> entity_id])
          writes == persist_writes(added, newmeta)
          indexLeft == file_after("index", indexFile, writes, n)
          metaLeft == file_after("meta", metaFile, writes, n)
      IN
        /\ indexFile' = indexLeft
        /\ metaFile' = metaLeft
        /\ index' = _load_index(indexLeft)
        /\ meta' = _load_meta(metaLeft)
        /\ upserted' = IF n > 0
                        THEN [upserted EXCEPT ![key] = [present |-> TRUE, text |-> txt]]
                        ELSE upserted
        /\ last' = [NoCall EXCEPT !.op = "add_or_update_crash", !.item_type = item_type,
                                  !.entity_id = entity_id, !.text = txt, !.writes_done = n,
                                  !.prev = upserted[key]]
        /\ raised' = "Crash"
        /\ UNCHANGED <<repoVars, now, threads>>

NextCrash == AddOrUpdate \/ AddOrUpdateCrash \/ Delete \/ Restart

SpecCrash == Init /\ [][NextCrash]_vars

----------------------------------------------------------------------------
(* Repositories: the rows of the three tables.  A resource or tool table is a *)
(* dict from id to row; the prompt table is listed in insertion order.        *)

\* _now(): the time of the call
_now == now

\* time passes between two calls, up to the last instant of the model
Tick ==
    /\ now < MaxClock
    /\ now' = now + 1
    /\ UNCHANGED <<storeVars, repoVars, upserted, last, raised, threads>>

\* Repository.update with every field of the payload written, the ones left
\* out (None) included
apply_update_all_fields(row, data) ==
    [f \in DOMAIN row |->
        IF f \in DOMAIN data THEN data[f]
        ELSE IF f = "updated_at" THEN _now
        ELSE IF f = "id" THEN row[f]
        ELSE <<>>]

\* Repository.update on a row that exists: the fields the payload supplies
\* replace the row's (model_dump(exclude_none=True) leaves out the fields that
\* are None), and updated_at is set to the time of the call
apply_update(row, data) ==
    [f \in DOMAIN row |->
        IF f \in DOMAIN data THEN data[f]
        ELSE IF f = "updated_at" THEN _now
        ELSE row[f]]

\* ResourceSQLiteRepository.create: the row of a new resource
resource_row(id, data) ==
    [id |-> id, name |-> data.name, description |-> data.description,
     content |-> data.content, category |-> data.category, tags |-> data.tags,
     updated_at |-> _now]

\* ToolSQLiteRepository.create: the row of a new tool
tool_row(id, data) ==
    [id |-> id, name |-> data.name, description |-> data.description,
     code |-> data.code, tags |-> data.tags, updated_at |-> _now]

\* PromptSQLiteRepository.create: the row of a new prompt
prompt_row(id, data) ==
    [id |-> id, name |-> data.name, role |-> data.role, content |-> data.content,
     tags |-> data.tags, updated_at |-> _now]

\* PromptSQLiteRepository.get: the row with that id, if there is one
prompt_get(rows, prompt_id) ==
    SelectSeq(rows, LAMBDA p : p.id = prompt_id)

\* raise HTTPException(status_code=status.HTTP_404_NOT_FOUND)
HTTP_404_NOT_FOUND == "HTTP_404_NOT_FOUND"

\* sep.join(parts)
RECURSIVE join(_, _)
join(sep, parts) ==
    IF parts = <<>> THEN <<>>
    ELSE IF Len(parts) = 1 THEN parts[1]
    ELSE parts[1] \o sep \o join(sep, Tail(parts))

\* filter(None, parts): the non-empty strings
non_empty(parts) == SelectSeq(parts, LAMBDA p : p # <<>>)

\* ResourceService._vector_text
resource_vector_text(resource) ==
    join(<<"\n">>, non_empty(<<resource.name, resource.description, resource.content,
                               join(<<",">>, resource.tags)>>))

\* ToolService._vector_text
tool_vector_text(tool) ==
    join(<<"\n">>, non_empty(<<tool.name, tool.description, tool.code,
                               join(<<",">>, tool.tags)>>))

\* the payloads the services are driven with
ResourceCreates ==
    { [name |-> <<"A", "b">>, description |-> <<>>, content |-> <<"a">>,
       category |-> <<"c">>, tags |-> <<>>],
      [name |-> <<"c">>, description |-> <<"c">>, content |-> <<"c">>,
       category |-> <<"c">>, tags |-> << <<"c">>, <<"c">> >>] }

ResourceUpdates == { [content |-> <<"a">>] }

ToolCreates ==
    { [name |-> <<"a">>, description |-> <<>>, code |-> <<"c">>, tags |-> <<>>] }

ToolUpdates == { [code |-> <<"b">>] }

PromptCreates ==
    { [name |-> <<"A", "B">>, role |-> "system", content |-> <<"c">>, tags |-> <<>>],
      [name |-> <<"c">>, role |-> "user", content |-> <<"c">>,
       tags |-> << <<"c">>, <<"b", "A">> >>] }

PromptUpdates == { [content |-> <<"c", "a", "B">>] }

SearchTarget == {"resource", "tool", "prompt"}

----------------------------------------------------------------------------
(* SearchService *)

\* the score of a keyword hit: 0.5
KeywordScore == 50

\* the test of the keyword path with the query left as typed
prompt_matches_query_as_typed(query, prompt) ==
    \/ Contains(query, lower(prompt.name))
    \/ Contains(query, lower(prompt.content))
    \/ \E t \in DOMAIN prompt.tags : Contains(query, lower(prompt.tags[t]))

\* the test of the keyword path on one prompt
prompt_matches(query, prompt) ==
    LET lowered == lower(query)
    IN  \/ Contains(lowered, lower(prompt.name))
        \/ Contains(lowered, lower(prompt.content))
        \/ \E t \in DOMAIN prompt.tags : Contains(lowered, lower(prompt.tags[t]))

\* the keyword path: the matching prompts, in listing order
prompt_hits(query, rows) ==
    LET kept == SelectSeq(rows, LAMBDA p : prompt_matches(query, p))
    IN  [i \in 1..Len(kept) |->
            [id |-> kept[i].id, type |-> "prompt", score |-> KeywordScore,
             payload |-> kept[i]]]

\* the vector path without the `if payload` test: a hit whose entity is not in
\* its table is reported with the payload None
resolved_hits_keep_unresolved(vector_hits, res, tls) ==
    LET table(hit) == IF hit.type = "resource" THEN res ELSE tls
    IN  [i \in 1..Len(vector_hits) |->
            [id |-> vector_hits[i].entity_id, type |-> vector_hits[i].type,
             score |-> vector_hits[i].score,
             payload |-> IF vector_hits[i].entity_id \in DOMAIN table(vector_hits[i])
                         THEN table(vector_hits[i])[vector_hits[i].entity_id]
                         ELSE None]]

\* the vector path: the hits of the store whose entity resolves in its table
resolved_hits(vector_hits, res, tls) ==
    LET table(hit) == IF hit.type = "resource" THEN res ELSE tls
        kept == SelectSeq(vector_hits, LAMBDA hit : hit.entity_id \in DOMAIN table(hit))
    IN  [i \in 1..Len(kept) |->
            [id |-> kept[i].entity_id, type |-> kept[i].type, score |-> kept[i].score,
             payload |-> table(kept[i])[kept[i].entity_id]]]

\* the merge without the sort
sorted_by_score_skipped(results) == results

\* sorted(results, key=score)[::-1]: an ascending sort turned round, which
\* turns the order among equal scores round too
sorted_ascending_reversed(results) ==
    LET n == Len(results)
        rank(i) == Cardinality({j \in 1..n : results[j].score > results[i].score})
                   + Cardinality({j \in (i + 1)..n : results[j].score = results[i].score})
                   + 1
    IN  [p \in 1..n |-> results[CHOOSE i \in 1..n : rank(i) = p]]

\* sorted(results, key=score, reverse=True): descending, equal scores keep
\* their order
sorted_by_score(results) ==
    LET n == Len(results)
        rank(i) == Cardinality({j \in 1..n : results[j].score > results[i].score})
                   + Cardinality({j \in 1..(i - 1) : results[j].score = results[i].score})
                   + 1
    IN  [p \in 1..n |-> results[CHOOSE i \in 1..n : rank(i) = p]]

\* results[:limit - 1]
truncate_one_short(results, limit) ==
    SubSeq(results, 1, IF limit - 1 < Len(results) THEN limit - 1 ELSE Len(results))

\* results[:limit]
truncate(results, limit) ==
    SubSeq(results, 1, IF limit < Len(results) THEN limit ELSE Len(results))

\* the first test of SearchService.search passing whatever the target
queries_store_always(target) == TRUE

\* `target in (None, "resource", "tool")`: the vector store is queried
queries_store(target) == target \in {None, "resource", "tool"}

\* `target in (None, "prompt")`: the prompts are scanned
scans_prompts(target) == target \in {None, "prompt"}

\* SearchService.search: every list it can return
service_search(query, target, limit) ==
    LET vector_lists ==
            IF queries_store(target)
            THEN {resolved_hits(hits, resources, tools) :
                     hits \in search(index, meta, query, limit,
                                     IF target \in {"resource", "tool"}
                                     THEN target ELSE None)}
            ELSE { <<>> }
        keyword_list ==
            IF scans_prompts(target) THEN prompt_hits(query, prompts) ELSE <<>>
    IN  {truncate(sorted_by_score(v \o keyword_list), limit) : v \in vector_lists}

----------------------------------------------------------------------------
(* Calls on the services *)

CreateResource ==
    \E payload \in ResourceCreates, id \in ResourceIds \ DOMAIN resources :
        /\ resources' = DictPut(resources, id, resource_row(id, payload))
        /\ add_or_update("resource", id, resource_vector_text(payload))
        /\ upserted' = [upserted EXCEPT ![<<"resource", id>>] =
                            [present |-> TRUE, text |-> resource_vector_text(payload)]]
        /\ last' = [NoCall EXCEPT !.op = "create_resource", !.item_type = "resource",
                                  !.entity_id = id, !.prev = upserted[<<"resource", id>>]]
        /\ UNCHANGED <<prompts, tools, now, threads>>

UpdateResource ==
    \E data \in ResourceUpdates, id \in ResourceIds :
        /\ last' = [NoCall EXCEPT !.op = "update_resource", !.item_type = "resource",
                                  !.entity_id = id, !.prev = upserted[<<"resource", id>>],
                                  !.result = IF id \in DOMAIN resources
                                             THEN <<apply_update(resources[id], data)>>
                                             ELSE <<>>]
        /\ UNCHANGED <<prompts, tools, now, threads>>
        /\ IF id \in DOMAIN resources
           THEN LET row == apply_update(resources[id], data)
                IN  /\ resources' = [resources EXCEPT ![id] = row]
                    /\ add_or_update("resource", id, resource_vector_text(row))
                    /\ upserted' = [upserted EXCEPT ![<<"resource", id>>] =
                                       [present |-> TRUE,
                                        text |-> resource_vector_text(row)]]
           ELSE /\ raised' = NoError
                /\ UNCHANGED <<resources, storeVars, upserted>>

\* delete_resource without the call of vector_store.delete
DeleteResource_keep_vector ==
    \E id \in ResourceIds :
        /\ last' = [NoCall EXCEPT !.op = "delete_resource", !.item_type = "resource",
                                  !.entity_id = id, !.prev = upserted[<<"resource", id>>],
                                  !.result = <<id \in DOMAIN resources>>]
        /\ resources' = DictPop(resources, id)
        /\ raised' = NoError
        /\ UNCHANGED <<prompts, tools, now, threads, storeVars, upserted>>

\* delete_resource without the `if deleted` test: vector_store.delete is called
\* whatever the repository returned
DeleteResource_unconditional ==
    \E id \in ResourceIds :
        /\ last' = [NoCall EXCEPT !.op = "delete_resource", !.item_type = "resource",
                                  !.entity_id = id, !.prev = upserted[<<"resource", id>>],
                                  !.result = <<id \in DOMAIN resources>>]
        /\ resources' = DictPop(resources, id)
        /\ delete("resource", id)
        /\ upserted' = [upserted EXCEPT ![<<"resource", id>>] = NotIndexed]
        /\ UNCHANGED <<prompts, tools, now, threads>>

DeleteResource ==
    \E id \in ResourceIds :
        /\ last' = [NoCall EXCEPT !.op = "delete_resource", !.item_type = "resource",
                                  !.entity_id = id, !.prev = upserted[<<"resource", id>>],
                                  !.result = <<id \in DOMAIN resources>>]
        /\ UNCHANGED <<prompts, tools, now, threads>>
        /\ IF id \in DOMAIN resources
           THEN /\ resources' = DictPop(resources, id)
                /\ delete("resource", id)
                /\ upserted' = [upserted EXCEPT ![<<"resource", id>>] = NotIndexed]
           ELSE /\ raised' = NoError
                /\ UNCHANGED <<resources, storeVars, upserted>>

CreateTool ==
    \E payload \in ToolCreates, id \in ToolIds \ DOMAIN tools :
        /\ tools' = DictPut(tools, id, tool_row(id, payload))
        /\ add_or_update("tool", id, tool_vector_text(payload))
        /\ upserted' = [upserted EXCEPT ![<<"tool", id>>] =
                            [present |-> TRUE, text |-> tool_vector_text(payload)]]
        /\ last' = [NoCall EXCEPT !.op = "create_tool", !.item_type = "tool",
                                  !.entity_id = id, !.prev = upserted[<<"tool", id>>]]
        /\ UNCHANGED <<prompts, resources, now, threads>>

UpdateTool ==
    \E data \in ToolUpdates, id \in ToolIds :
        /\ last' = [NoCall EXCEPT !.op = "update_tool", !.item_type = "tool",
                                  !.entity_id = id, !.prev = upserted[<<"tool", id>>],
                                  !.result = IF id \in DOMAIN tools
                                             THEN <<apply_update(tools[id], data)>>
                                             ELSE <<>>]
        /\ UNCHANGED <<prompts, resources, now, threads>>
        /\ IF id \in DOMAIN tools
           THEN LET row == apply_update(tools[id], data)
                IN  /\ tools' = [tools EXCEPT ![id] = row]
                    /\ add_or_update("tool", id, tool_vector_text(row))
                    /\ upserted' = [upserted EXCEPT ![<<"tool", id>>] =
                                       [present |-> TRUE, text |-> tool_vector_text(row)]]
           ELSE /\ raised' = NoError
                /\ UNCHANGED <<tools, storeVars, upserted>>

DeleteTool ==
    \E id \in ToolIds :
        /\ last' = [NoCall EXCEPT !.op = "delete_tool", !.item_type = "tool",
                                  !.entity_id = id, !.prev = upserted[<<"tool", id>>],
                                  !.result = <<id \in DOMAIN tools>>]
        /\ UNCHANGED <<prompts, resources, now, threads>>
        /\ IF id \in DOMAIN tools
           THEN /\ tools' = DictPop(tools, id)
                /\ delete("tool", id)
                /\ upserted' = [upserted EXCEPT ![<<"tool", id>>] = NotIndexed]
           ELSE /\ raised' = NoError
                /\ UNCHANGED <<tools, storeVars, upserted>>

\* create_prompt written as create_resource is: the new prompt is embedded and
\* put in the store, under its own type
CreatePrompt_indexed ==
    \E payload \in PromptCreates,
       id \in PromptIds \ {prompts[i].id : i \in DOMAIN prompts} :
      LET vector_id == _vector_id("prompt", id)
          added == add_with_ids(remove_ids(index, {vector_id}),
                                embed_texts(payload.content), vector_id)
          newmeta == DictPut(meta, int64_str(vector_id),
                             [type |-> "prompt", entity_id |-> id])
      IN
        /\ prompts' = Append(prompts, prompt_row(id, payload))
        /\ index' = added
        /\ meta' = newmeta
        /\ indexFile' = _persist_index(added)
        /\ metaFile' = _persist_meta(newmeta)
        /\ last' = [NoCall EXCEPT !.op = "create_prompt", !.entity_id = id,
                                  !.result = prompt_get(prompts', id)]
        /\ raised' = NoError
        /\ UNCHANGED <<resources, tools, upserted, now, threads>>

CreatePrompt ==
    \E payload \in PromptCreates,
       id \in PromptIds \ {prompts[i].id : i \in DOMAIN prompts} :
        /\ prompts' = Append(prompts, prompt_row(id, payload))
        /\ last' = [NoCall EXCEPT !.op = "create_prompt", !.entity_id = id,
                                  !.result = prompt_get(prompts', id)]
        /\ raised' = NoError
        /\ UNCHANGED <<storeVars, resources, tools, upserted, now, threads>>

UpdatePrompt ==
    \E data \in PromptUpdates, id \in PromptIds :
        /\ prompts' = [i \in DOMAIN prompts |->
                          IF prompts[i].id = id THEN apply_update(prompts[i], data)
                          ELSE prompts[i]]
        /\ last' = [NoCall EXCEPT !.op = "update_prompt", !.entity_id = id,
                                  !.result = prompt_get(prompts', id)]
        /\ raised' = IF prompt_get(prompts, id) # <<>> THEN NoError
                      ELSE HTTP_404_NOT_FOUND
        /\ UNCHANGED <<storeVars, resources, tools, upserted, now, threads>>

\* DELETE /prompts/{prompt_id} without the test of what the service returns
DeletePrompt_always_204 ==
    \E id \in PromptIds :
        /\ prompts' = SelectSeq(prompts, LAMBDA p : p.id # id)
        /\ last' = [NoCall EXCEPT !.op = "delete_prompt", !.entity_id = id]
        /\ raised' = NoError
        /\ UNCHANGED <<storeVars, resources, tools, upserted, now, threads>>

DeletePrompt ==
    \E id \in PromptIds :
        /\ prompts' = SelectSeq(prompts, LAMBDA p : p.id # id)
        /\ last' = [NoCall EXCEPT !.op = "delete_prompt", !.entity_id = id]
        /\ raised' = IF prompt_get(prompts, id) # <<>> THEN NoError
                      ELSE HTTP_404_NOT_FOUND
        /\ UNCHANGED <<storeVars, resources, tools, upserted, now, threads>>

\* GET /prompts/{prompt_id}
GetPrompt ==
    \E id \in PromptIds :
        /\ last' = [NoCall EXCEPT !.op = "get_prompt", !.entity_id = id,
                                  !.result = prompt_get(prompts, id)]
        /\ raised' = IF prompt_get(prompts, id) # <<>> THEN NoError
                      ELSE HTTP_404_NOT_FOUND
        /\ UNCHANGED <<storeVars, repoVars, upserted, now, threads>>

ServiceSearch ==
    \E query \in Queries, limit \in Limits, target \in SearchTarget \cup {None} :
        \E result \in service_search(query, target, limit) :
            /\ last' = [NoCall EXCEPT !.op = "service_search", !.item_type = target,
                                      !.text = query, !.limit = limit,
                                      !.result = result]
            /\ raised' = NoError
            /\ UNCHANGED <<storeVars, repoVars, upserted, now, threads>>

\* SearchService.search when the embedding model is unavailable: the query of
\* the vector store raises in embed_texts, and search lets it pass
ServiceSearchRaises ==
    \E query \in Queries, limit \in Limits, target \in SearchTarget \cup {None} :
        /\ queries_store(target)
        /\ search_embeds(index)
        /\ last' = [NoCall EXCEPT !.op = "service_search", !.item_type = target,
                                  !.text = query, !.limit = limit]
        /\ raised' = "EmbeddingFailure"
        /\ UNCHANGED <<storeVars, repoVars, upserted, now, threads>>

\* The process dies in create_resource after add_or_update has written both
\* files and before the request ends.  Whether the new row outlives the process
\* depends on when the request's database session commits, which this code does
\* not decide: both outcomes are possible.  The process that replaces it loads
\* the store from the files.
CreateResourceCrash ==
    \E payload \in ResourceCreates, id \in ResourceIds \ DOMAIN resources,
       committed \in BOOLEAN :
        /\ resources' = IF committed THEN DictPut(resources, id, resource_row(id, payload))
                         ELSE resources
        /\ add_or_update("resource", id, resource_vector_text(payload))
        /\ upserted' = [upserted EXCEPT ![<<"resource", id>>] =
                            [present |-> TRUE, text |-> resource_vector_text(payload)]]
        /\ last' = [NoCall EXCEPT !.op = "create_resource_crash",
                                  !.item_type = "resource", !.entity_id = id,
                                  !.prev = upserted[<<"resource", id>>],
                                  !.writes_done = 2]
        /\ UNCHANGED <<prompts, tools, now, threads>>

\* the same in create_tool
CreateToolCrash ==
    \E payload \in ToolCreates, id \in ToolIds \ DOMAIN tools, committed \in BOOLEAN :
        /\ tools' = IF committed THEN DictPut(tools, id, tool_row(id, payload)) ELSE tools
        /\ add_or_update("tool", id, tool_vector_text(payload))
        /\ upserted' = [upserted EXCEPT ![<<"tool", id>>] =
                            [present |-> TRUE, text |-> tool_vector_text(payload)]]
        /\ last' = [NoCall EXCEPT !.op = "create_tool_crash", !.item_type = "tool",
                                  !.entity_id = id, !.prev = upserted[<<"tool", id>>],
                                  !.writes_done = 2]
        /\ UNCHANGED <<prompts, resources, now, threads>>

\* searches over tables and a store that creations, some of them cut short, and
\* deletions have left
NextResolve ==
    \/ CreateResource \/ CreateResourceCrash \/ DeleteResource
    \/ CreateTool \/ CreateToolCrash \/ DeleteTool
    \/ CreatePrompt
    \/ ServiceSearch

SpecResolve == Init /\ [][NextResolve]_vars

\* creations and updates of the three kinds, with time passing between calls
NextUpdate ==
    \/ CreateResource \/ UpdateResource
    \/ CreateTool \/ UpdateTool
    \/ CreatePrompt \/ UpdatePrompt
    \/ Tick

SpecUpdate == Init /\ [][NextUpdate]_vars

NextService ==
    \/ CreateResource \/ UpdateResource \/ DeleteResource
    \/ CreateTool \/ UpdateTool \/ DeleteTool
    \/ CreatePrompt \/ UpdatePrompt \/ DeletePrompt \/ GetPrompt
    \/ ServiceSearch \/ ServiceSearchRaises

SpecService == Init /\ [][NextService]_vars

----------------------------------------------------------------------------
(* The JSON-RPC endpoint: tools/list *)

\* META_TOOL_DEFINITIONS: the meta tools in the order of the list, each with
\* the required arguments of its schema
META_TOOL_DEFINITIONS ==
    << [name |-> "meta.createPrompt", required |-> {"name", "role", "content"}],
       [name |-> "meta.updatePrompt", required |-> {"id"}],
       [name |-> "meta.createResource",
        required |-> {"name", "description", "content", "category"}],
       [name |-> "meta.updateResource", required |-> {"id"}],
       [name |-> "meta.createTool", required |-> {"name", "description", "code"}],
       [name |-> "meta.updateTool", required |-> {"id"}],
       [name |-> "meta.searchResources", required |-> {"query"}],
       [name |-> "meta.searchTools", required |-> {"query"}] >>

\* Repository.list() of a table kept by id: `select` without ORDER BY, so the
\* rows in whatever order the database gives them
table_list(table) ==
    LET n == Cardinality(DOMAIN table)
    IN  {[i \in 1..n |-> table[order[i]]] :
            order \in {o \in [1..n -> DOMAIN table] :
                          \A i, j \in 1..n : i # j => o[i] # o[j]}}

\* the entry of a meta tool in the answer of tools/list
meta_entry(tool) ==
    [name |-> tool.name, stored |-> FALSE, required |-> tool.required]

\* the entry of a stored tool: its name and an empty schema
stored_entry(t) ==
    [name |-> t.name, stored |-> TRUE, required |-> {}]

\* tools/list with the stored tools put before the meta tools
tools_list_stored_first(tls) ==
    {[i \in DOMAIN stored_tools |-> stored_entry(stored_tools[i])]
        \o [i \in DOMAIN META_TOOL_DEFINITIONS |-> meta_entry(META_TOOL_DEFINITIONS[i])] :
     stored_tools \in table_list(tls)}

\* the branch of mcp_rpc for tools/list: meta_payload + stored_payload, for
\* every order the repository can list the tools in
tools_list(tls) ==
    {[i \in DOMAIN META_TOOL_DEFINITIONS |-> meta_entry(META_TOOL_DEFINITIONS[i])]
        \o [i \in DOMAIN stored_tools |-> stored_entry(stored_tools[i])] :
     stored_tools \in table_list(tls)}

ToolsList ==
    \E result \in tools_list(tools) :
        /\ last' = [NoCall EXCEPT !.op = "tools/list", !.result = result]
        /\ raised' = NoError
        /\ UNCHANGED <<storeVars, repoVars, upserted, now, threads>>

\* the tool table through creations, updates and deletions, listed by tools/list
NextTools ==
    \/ CreateTool \/ UpdateTool \/ DeleteTool
    \/ CreateResource \/ DeleteResource
    \/ Tick
    \/ ToolsList

SpecTools == Init /\ [][NextTools]_vars

----------------------------------------------------------------------------
(* add_or_update when the embedding model fails *)

\* add_or_update when embed_texts raises: remove_ids has run, and nothing after
\* the call of embed_texts does
add_or_update_raises(item_type, entity_id) ==
    LET vector_id == VectorIds(item_type, entity_id)
        removed == remove_ids(index, {vector_id})
    IN  /\ index' = removed
        /\ raised' = "EmbeddingFailure"
        /\ UNCHANGED <<meta, indexFile, metaFile>>

\* the index holds no vector for the (type, id) after the call
AddOrUpdateRaises ==
    \E key \in StoreKeys, txt \in Texts :
      LET item_type == key[1]
          entity_id == key[2]
      IN
        /\ add_or_update_raises(item_type, entity_id)
        /\ upserted' = [upserted EXCEPT ![key] = NotIndexed]
        /\ last' = [NoCall EXCEPT !.op = "add_or_update", !.item_type = item_type,
                                  !.entity_id = entity_id, !.text = txt,
                                  !.prev = upserted[key]]
        /\ UNCHANGED <<repoVars, now, threads>>

NextEmbedFail == AddOrUpdate \/ AddOrUpdateRaises \/ Delete

SpecEmbedFail == Init /\ [][NextEmbedFail]_vars

----------------------------------------------------------------------------
(* A crash inside delete *)

\* the writes at the end of delete, in the order it makes them: _persist_index,
\* then _persist_meta
delete_writes(idx, m) ==
    << [file |-> "index", content |-> _persist_index(idx)],
       [file |-> "meta", content |-> _persist_meta(m)] >>

\* The process dies inside delete with n of its two writes done (0: before the
\* first, 1: between them, 2: after the second, before returning).  The process
\* that replaces it constructs its FaissStore from the files left.
DeleteCrash ==
    \E key \in StoreKeys, n \in 0..2 :
      LET item_type == key[1]
          entity_id == key[2]
          vector_id == VectorIds(item_type, entity_id)
          removed == remove_ids(index, {vector_id})
          newmeta == DictPop(meta, str(vector_id))
          writes == delete_writes(removed, newmeta)
          indexLeft == file_after("index", indexFile, writes, n)
          metaLeft == file_after("meta", metaFile, writes, n)
      IN
        /\ indexFile' = indexLeft
        /\ metaFile' = metaLeft
        /\ index' = _load_index(indexLeft)
        /\ meta' = _load_meta(metaLeft)
        /\ upserted' = IF n > 0 THEN [upserted EXCEPT ![key] = NotIndexed]
                        ELSE upserted
        /\ last' = [NoCall EXCEPT !.op = "delete_crash", !.item_type = item_type,
                                  !.entity_id = entity_id, !.writes_done = n,
                                  !.prev = upserted[key]]
        /\ raised' = "Crash"
        /\ UNCHANGED <<repoVars, now, threads>>

NextDeleteCrash == AddOrUpdate \/ Delete \/ DeleteCrash \/ Restart

SpecDeleteCrash == Init /\ [][NextDeleteCrash]_vars

----------------------------------------------------------------------------
(* Request threads on the shared FaissStore.  The routes are plain `def`     *)
(* functions, which the server runs on a pool of threads; `vector_store` is  *)
(* one module-level object and no lock guards it.  A thread runs a call one  *)
(* statement at a time, and the statements of two threads interleave.        *)

\* what the threads upsert and look for
ConcurrentKeys == {<<"resource", "x">>}

ConcurrentTexts == { <<"a">>, <<"c">> }

\* the thread enters add_or_update
BeginAddOrUpdate(t) ==
    \E key \in ConcurrentKeys, txt \in ConcurrentTexts :
        /\ threads[t].op = "idle"
        /\ threads' = [threads EXCEPT ![t] =
              [NoThread EXCEPT !.op = "add_or_update", !.pc = "remove_ids",
                               !.item_type = key[1], !.entity_id = key[2],
                               !.text = txt,
                               !.prev = \E i \in DOMAIN index :
                                            index[i].id = VectorIds(key[1], key[2])]]
        /\ UNCHANGED <<storeVars, repoVars, upserted, last, raised, now>>

\* self.index.remove_ids(...)
StepRemoveIds(t) ==
    LET c == threads[t]
        vector_id == VectorIds(c.item_type, c.entity_id)
    IN  /\ c.op = "add_or_update" /\ c.pc = "remove_ids"
        /\ index' = remove_ids(index, {vector_id})
        /\ upserted' = [upserted EXCEPT ![<<c.item_type, c.entity_id>>] = NotIndexed]
        /\ threads' = [threads EXCEPT ![t].pc = "add_with_ids"]
        /\ UNCHANGED <<meta, indexFile, metaFile, repoVars, last, raised, now>>

\* embedding = embed_texts([text])[0]; self.index.add_with_ids(embedding, ids)
StepAddWithIds(t) ==
    LET c == threads[t]
        vector_id == VectorIds(c.item_type, c.entity_id)
    IN  /\ c.op = "add_or_update" /\ c.pc = "add_with_ids"
        /\ index' = add_with_ids(index, embed_texts(c.text), vector_id)
        /\ upserted' = [upserted EXCEPT ![<<c.item_type, c.entity_id>>] =
                            [present |-> TRUE, text |-> c.text]]
        /\ threads' = [threads EXCEPT ![t].pc = "meta_put"]
        /\ UNCHANGED <<meta, indexFile, metaFile, repoVars, last, raised, now>>

\* self.meta[str(vector_id)] = {...}
StepMetaPut(t) ==
    LET c == threads[t]
        vector_id == VectorIds(c.item_type, c.entity_id)
    IN  /\ c.op = "add_or_update" /\ c.pc = "meta_put"
        /\ meta' = DictPut(meta, str(vector_id),
                           [type |-> c.item_type, entity_id |-> c.entity_id])
        /\ threads' = [threads EXCEPT ![t].pc = "persist_index"]
        /\ UNCHANGED <<index, indexFile, metaFile, repoVars, upserted, last, raised, now>>

\* self._persist_index(self.index): the index as it is at that moment
StepPersistIndex(t) ==
    LET c == threads[t]
    IN  /\ c.op = "add_or_update" /\ c.pc = "persist_index"
        /\ indexFile' = _persist_index(index)
        /\ threads' = [threads EXCEPT ![t].pc = "persist_meta"]
        /\ UNCHANGED <<index, meta, metaFile, repoVars, upserted, last, raised, now>>

\* self._persist_meta(), and the call returns
StepPersistMeta(t) ==
    LET c == threads[t]
    IN  /\ c.op = "add_or_update" /\ c.pc = "persist_meta"
        /\ metaFile' = _persist_meta(meta)
        /\ threads' = [threads EXCEPT ![t] = NoThread]
        /\ last' = [NoCall EXCEPT !.op = "add_or_update", !.item_type = c.item_type,
                                  !.entity_id = c.entity_id, !.text = c.text,
                                  !.prev = [present |-> c.prev, text |-> <<>>]]
        /\ raised' = NoError
        /\ UNCHANGED <<index, meta, indexFile, repoVars, upserted, now>>

\* the thread enters search, with no type filter
BeginSearch(t) ==
    \E query \in Queries, limit \in Limits :
        /\ threads[t].op = "idle"
        /\ threads' = [threads EXCEPT ![t] =
              [NoThread EXCEPT !.op = "search", !.pc = "ntotal",
                               !.text = query, !.limit = limit]]
        /\ UNCHANGED <<storeVars, repoVars, upserted, last, raised, now>>

\* if self.index.ntotal == 0: return []
StepNtotal(t) ==
    LET c == threads[t]
    IN  /\ c.op = "search" /\ c.pc = "ntotal"
        /\ IF search_embeds(index)
           THEN /\ threads' = [threads EXCEPT ![t].pc = "index_search"]
                /\ UNCHANGED <<last, raised>>
           ELSE /\ threads' = [threads EXCEPT ![t] = NoThread]
                /\ last' = [NoCall EXCEPT !.op = "search", !.text = c.text,
                                          !.limit = c.limit]
                /\ raised' = NoError
        /\ UNCHANGED <<storeVars, repoVars, upserted, now>>

\* scores, ids = self.index.search(query_vec, limit)
StepIndexSearch(t) ==
    LET c == threads[t]
    IN  /\ c.op = "search" /\ c.pc = "index_search"
        /\ \E raw \in index_search(index, embed_texts(c.text), c.limit) :
              threads' = [threads EXCEPT ![t].pc = "resolve", ![t].raw = raw]
        /\ UNCHANGED <<storeVars, repoVars, upserted, last, raised, now>>

\* the loop over the candidates, and the call returns
StepResolve(t) ==
    LET c == threads[t]
    IN  /\ c.op = "search" /\ c.pc = "resolve"
        /\ threads' = [threads EXCEPT ![t] = NoThread]
        /\ last' = [NoCall EXCEPT !.op = "search", !.text = c.text, !.limit = c.limit,
                                  !.result = search_hits(c.raw, meta, None)]
        /\ raised' = NoError
        /\ UNCHANGED <<storeVars, repoVars, upserted, now>>

NextConcurrent ==
    \E t \in Threads :
        \/ BeginAddOrUpdate(t) \/ StepRemoveIds(t) \/ StepAddWithIds(t)
        \/ StepMetaPut(t) \/ StepPersistIndex(t) \/ StepPersistMeta(t)
        \/ BeginSearch(t) \/ StepNtotal(t) \/ StepIndexSearch(t) \/ StepResolve(t)

SpecConcurrent == Init /\ [][NextConcurrent]_vars

\* the prompt table through its three writes, beside a store that creations and
\* deletions of resources and tools fill and empty
NextPrompts ==
    \/ CreatePrompt \/ UpdatePrompt \/ DeletePrompt
    \/ CreateResource \/ DeleteResource
    \/ CreateTool

SpecPrompts == Init /\ [][NextPrompts]_vars

\* resources and tools through their services: create, update and delete, of
\* ids that are stored and of ids that are not, with time passing between calls
NextLifecycle ==
    \/ CreateResource \/ UpdateResource \/ DeleteResource
    \/ CreateTool \/ UpdateTool \/ DeleteTool
    \/ Tick

SpecLifecycle == Init /\ [][NextLifecycle]_vars

\* searches over resources, tools and prompts of which several score the same
NextMerge ==
    \/ CreateResource \/ CreateTool \/ UpdateTool
    \/ CreatePrompt
    \/ ServiceSearch

SpecMerge == Init /\ [][NextMerge]_vars

----------------------------------------------------------------------------
(* Properties of the store *)

Filters == VectorTarget \cup {None}

\* the positions of the index that hold the vector id of a (type, id)
SlotsOf(idx, key) == {i \in DOMAIN idx : idx[i].id = VectorIds(key[1], key[2])}

\* the vectors the index holds for a (type, id)
VectorsOf(idx, key) == {idx[i].vec : i \in SlotsOf(idx, key)}

\* the positions of a result list that name a (type, id)
HitsOf(res, key) ==
    {i \in DOMAIN res : res[i].type = key[1] /\ res[i].entity_id = key[2]}

\* every list some search of the store (idx, m) can return
AllSearches(idx, m) ==
    UNION {search(idx, m, q, k, f) : q \in Queries, k \in Limits, f \in Filters}

\* C1: after any sequence of completed add_or_update and delete calls on a
\* store started without files, the vector ids of the index are exactly the
\* keys of the catalog.
C1_Lockstep ==
    {str(index[i].id) : i \in DOMAIN index} = DOMAIN meta

C1_Witness ==
    /\ last.op = "delete"
    /\ last.prev.present
    /\ Len(index) >= 1

\* C2: a (type, id) that is indexed has exactly one vector in the index, the
\* embedding of the text it was last upserted with, whatever it was upserted
\* with before; a search returns it at most once, with the score of that text.
C2_OneSlotPerKey ==
    \A key \in StoreKeys :
        upserted[key].present =>
            /\ Cardinality(SlotsOf(index, key)) = 1
            /\ VectorsOf(index, key) = {embed_texts(upserted[key].text)}
            /\ \A q \in Queries, k \in Limits, f \in Filters :
                 \A res \in search(index, meta, q, k, f) :
                    /\ Cardinality(HitsOf(res, key)) <= 1
                    /\ \A i \in HitsOf(res, key) :
                         res[i].score =
                            InnerProduct(embed_texts(q),
                                         embed_texts(upserted[key].text))

\* the key was upserted a second time, with a text that embeds differently
C2_Witness ==
    /\ last.op = "add_or_update"
    /\ last.prev.present
    /\ embed_texts(last.prev.text) # embed_texts(last.text)
    /\ Len(index) >= 2

\* C3 (first half): a (type, id) that is not indexed, deleted or never
\* upserted, is in no search result.
C3_DeletedNotFound ==
    \A key \in StoreKeys :
        ~upserted[key].present =>
            \A res \in AllSearches(index, meta) : HitsOf(res, key) = {}

\* C3 (second half): a delete of a (type, id) that is not indexed raises
\* nothing and leaves the index and the catalog as they were.
C3_RepeatDeleteNoOp ==
    (last'.op = "delete" /\ ~last'.prev.present) =>
        /\ raised' = NoError
        /\ index' = index
        /\ meta' = meta

\* C3: after delete no search returns the (type, id) until it is upserted
\* again, and deleting what is not indexed is a no-op, not an error.
C3_DeleteIdempotent ==
    []C3_DeletedNotFound /\ [][C3_RepeatDeleteNoOp]_vars

\* a delete of something not indexed, other entities being indexed
C3_Witness ==
    /\ last.op = "delete"
    /\ ~last.prev.present
    /\ Len(index) >= 1

\* C4: a search with a type filter returns only tuples of that type.
C4_TypeFilter ==
    \A q \in Queries, k \in Limits, f \in VectorTarget :
        \A res \in search(index, meta, q, k, f) :
            \A i \in DOMAIN res : res[i].type = f

\* a filtered search returned something while the other type was indexed too
C4_Witness ==
    /\ last.op = "search"
    /\ last.item_type = "resource"
    /\ last.result # <<>>
    /\ upserted[<<"tool", "x">>].present
    /\ Len(last.result) < Len(index)
    /\ Len(last.result) < last.limit

\* C5: on an index without vectors every search returns the empty list, and
\* none raises.
C5_EmptyIndex ==
    ntotal(index) = 0 =>
        /\ AllSearches(index, meta) = { <<>> }
        /\ last.op = "search" => (raised = NoError /\ last.result = <<>>)

\* a search of a store that was written to and holds nothing
C5_Witness ==
    /\ last.op = "search"
    /\ ntotal(index) = 0
    /\ metaFile.exists

\* C6: the index and the catalog a new FaissStore loads from the two files are
\* the ones in memory, so that it answers every search as the store that wrote
\* the files.
C6_RoundTrip ==
    /\ _load_index(indexFile) = index
    /\ _load_meta(metaFile) = meta
    /\ \A q \in Queries, k \in Limits, f \in Filters :
          search(_load_index(indexFile), _load_meta(metaFile), q, k, f)
             = search(index, meta, q, k, f)

\* a store constructed on the files of a store that holds two entities
C6_Witness ==
    /\ last.op = "restart"
    /\ Len(index) >= 2
    /\ metaFile.exists

Retrievable(idx, m, key) ==
    \A q \in Queries, k \in Limits :
        k >= ntotal(idx) =>
            \A res \in search(idx, m, q, k, None) : HitsOf(res, key) # {}

\* the other kind under the same textual id
Twin(key) == <<IF key[1] = "resource" THEN "tool" ELSE "resource", key[2]>>

\* C10 (one step): an upsert or delete of one of two entities that share a
\* textual id leaves the other's vector and catalog entry as they were, and
\* the other stays retrievable.
C10_TwinUntouched ==
    \A key \in StoreKeys :
        (/\ Twin(key) \in StoreKeys
         /\ last'.op \in {"add_or_update", "delete"}
         /\ <<last'.item_type, last'.entity_id>> = key
         /\ upserted[key].present
         /\ upserted[Twin(key)].present) =>
            LET k == str(VectorIds(Twin(key)[1], Twin(key)[2]))
            IN  /\ VectorsOf(index', Twin(key)) = VectorsOf(index, Twin(key))
                /\ Cardinality(SlotsOf(index', Twin(key))) = 1
                /\ k \in DOMAIN meta'
                /\ meta'[k] = meta[k]
                /\ Retrievable(index', meta', Twin(key))

\* C10: when a resource and a tool with the same textual id are both indexed,
\* deleting or upserting one leaves the other's vector and catalog entry
\* unchanged and the other retrievable.
C10_Frame == [][C10_TwinUntouched]_vars

\* one of the two was deleted while the other was indexed
C10_Witness ==
    /\ last.op = "delete"
    /\ last.entity_id = "x"
    /\ last.prev.present
    /\ upserted[Twin(<<last.item_type, last.entity_id>>)].present

----------------------------------------------------------------------------
(* Properties of the search service *)

\* C7: a merged search (no target) returns at most `limit` results in order of
\* non-increasing score, the prompt hits ranked as 0.5: none before a vector hit
\* that scores above 0.5, none after one that scores below.
C7_MergedRanking ==
    \A q \in Queries, limit \in Limits :
        \A res \in service_search(q, None, limit) :
            /\ Len(res) <= limit
            /\ \A i, j \in DOMAIN res :
                 i < j =>
                    /\ res[i].score >= res[j].score
                    /\ (res[i].type = "prompt" /\ res[j].type # "prompt")
                          => res[j].score <= 50
                    /\ (res[i].type # "prompt" /\ res[j].type = "prompt")
                          => res[i].score >= 50

\* a merged result with a prompt hit between a stronger and a weaker vector hit
C7_Witness ==
    /\ last.op = "service_search"
    /\ last.item_type = None
    /\ \E i, j, k \in DOMAIN last.result :
          /\ i < j /\ j < k
          /\ last.result[i].type # "prompt" /\ last.result[i].score > 50
          /\ last.result[j].type = "prompt"
          /\ last.result[k].type # "prompt" /\ last.result[k].score < 50

\* c and d are one letter, in whatever case
SameLetter(c, d) ==
    \/ c = d
    \/ {c, d} \in {{"a", "A"}, {"b", "B"}, {"c", "C"}}

\* needle occurs in hay, case ignored
OccursIgnoringCase(needle, hay) ==
    \E offset \in 0..Len(hay) :
        /\ offset + Len(needle) <= Len(hay)
        /\ \A i \in 1..Len(needle) : SameLetter(needle[i], hay[offset + i])

\* the query occurs in the name, the content or a tag of the prompt
KeywordMatch(query, prompt) ==
    \/ OccursIgnoringCase(query, prompt.name)
    \/ OccursIgnoringCase(query, prompt.content)
    \/ \E t \in DOMAIN prompt.tags : OccursIgnoringCase(query, prompt.tags[t])

\* C8: with no target or the target "prompt", the keyword path adds a stored
\* prompt as a hit exactly when the query occurs, case ignored, in its name, its
\* content or one of its tags, and every such hit has the score 0.5.  (A search
\* that asks for at least as many results as there are candidates returns all
\* the hits.)
C8_KeywordHits ==
    \A q \in Queries :
        /\ \A i \in DOMAIN prompts :
              KeywordMatch(q, prompts[i]) <=>
                 \E h \in DOMAIN prompt_hits(q, prompts) :
                    prompt_hits(q, prompts)[h].payload = prompts[i]
        /\ \A target \in {None, "prompt"}, limit \in Limits :
              \A res \in service_search(q, target, limit) :
                 /\ \A h \in DOMAIN res :
                       res[h].type = "prompt" =>
                          /\ res[h].score = 50
                          /\ res[h].payload \in {prompts[i] : i \in DOMAIN prompts}
                          /\ KeywordMatch(q, res[h].payload)
                 /\ (Len(prompts) + (IF target = None THEN ntotal(index) ELSE 0)
                        <= limit) =>
                       \A i \in DOMAIN prompts :
                          KeywordMatch(q, prompts[i]) =>
                             \E h \in DOMAIN res : res[h].id = prompts[i].id

\* a prompt search that found one of two prompts, by a name in another case
C8_Witness ==
    /\ last.op = "service_search"
    /\ last.item_type = "prompt"
    /\ last.text = <<"A", "b">>
    /\ Len(prompts) = 2
    /\ Len(last.result) = 1
    /\ last.result[1].payload.name = <<"A", "B">>

----------------------------------------------------------------------------
(* The vector id *)

\* an int64 in 0 .. 2**63 - 2, written without leading zeros
InVectorIdRange(v) ==
    /\ ~v.neg
    /\ v.mag = Strip(v.mag)
    /\ ~Geq(v.mag, VectorIdModulus)

\* C11: the vector id of a (type, id) lies in 0 .. 2^63 - 2, and it is the same
\* at every call, in this process or after a restart: the id a pair was indexed
\* under by an earlier call is the id a later call computes for it, so the pair
\* is found in the index and in the catalog under it.
C11_VectorIdPure ==
    /\ \A k \in VectorTarget \X TextualIds : InVectorIdRange(VectorIds(k[1], k[2]))
    /\ \A k \in StoreKeys :
          upserted[k].present =>
              /\ SlotsOf(index, k) # {}
              /\ str(VectorIds(k[1], k[2])) \in DOMAIN meta
              /\ meta[str(VectorIds(k[1], k[2]))] = [type |-> k[1], entity_id |-> k[2]]

\* a restarted store that holds pairs indexed before the restart
C11_Witness ==
    /\ last.op = "restart"
    /\ \E k \in StoreKeys : upserted[k].present /\ SlotsOf(index, k) # {}

----------------------------------------------------------------------------
(* Crashes *)

\* the vector ids of the index a file holds, as the catalog writes them
IdsOnDisk == {str(r.id) : r \in {_load_index(indexFile)[i] :
                                     i \in DOMAIN _load_index(indexFile)}}

Orphans(idx, m) == {i \in DOMAIN idx : str(idx[i].id) \notin DOMAIN m}

\* the positions of the index a search with filter f can resolve
Resolvable(idx, m, f) ==
    {i \in DOMAIN idx \ Orphans(idx, m) : f = None \/ m[str(idx[i].id)].type = f}

\* C13: when the index holds a vector id without catalog entry, every search
\* returns a list (no error), no hit of it stands for that id (every hit names
\* a pair the catalog holds), and the resolvable vectors are still returned:
\* all of them when the limit covers the whole index, and otherwise all the
\* candidates of the index but the orphans among them.
C13_StaleDropped ==
    Orphans(index, meta) # {} =>
        \A q \in Queries, k \in Limits, f \in Filters :
          LET lists == search(index, meta, q, k, f)
              resolvable == Resolvable(index, meta, f)
          IN
            /\ lists # {}
            /\ \A res \in lists :
                  /\ \A i \in DOMAIN res :
                        /\ <<res[i].type, res[i].entity_id>> \in StoreKeys
                        /\ str(VectorIds(res[i].type, res[i].entity_id)) \in DOMAIN meta
                  /\ Len(res) <= Cardinality(resolvable)
                  /\ f = None =>
                        Len(res) >= (IF k < ntotal(index) THEN k ELSE ntotal(index))
                                    - Cardinality(Orphans(index, meta))
                  /\ k >= ntotal(index) =>
                        /\ Len(res) = Cardinality(resolvable)
                        /\ \A i \in resolvable :
                              \E j \in DOMAIN res :
                                  /\ res[j].entity_id = meta[str(index[i].id)].entity_id
                                  /\ res[j].type = meta[str(index[i].id)].type

\* after a crash between the two writes and the restart, the index holds an
\* orphan next to a resolvable vector, and a search returns the latter only
C13_Witness ==
    /\ last.op = "add_or_update_crash"
    /\ last.writes_done = 1
    /\ Orphans(index, meta) # {}
    /\ \E q \in Queries, k \in Limits :
          \E res \in search(index, meta, q, k, None) :
              /\ Len(res) > 0
              /\ Len(res) < ntotal(index)
              /\ k >= ntotal(index)

----------------------------------------------------------------------------
(* Resolving the vector hits *)

\* the (type, id) pairs of the services that the store holds without a row in
\* the table of their type
Unresolved ==
    {k \in ({"resource"} \X ResourceIds) \cup ({"tool"} \X ToolIds) :
        /\ str(VectorIds(k[1], k[2])) \in DOMAIN meta
        /\ SlotsOf(index, k) # {}
        /\ k[2] \notin DOMAIN (IF k[1] = "resource" THEN resources ELSE tools)}

\* C14: SearchService.search leaves out a vector hit whose entity is not in the
\* repository of its type, without an error, and every resource or tool result
\* carries the row its repository holds under that id at the time of the search.
C14_UnresolvedDropped ==
    /\ last.op = "service_search" =>
          /\ raised = NoError
          /\ \A i \in DOMAIN last.result :
                LET r == last.result[i]
                IN  /\ r.type = "resource" =>
                          r.id \in DOMAIN resources /\ r.payload = resources[r.id]
                    /\ r.type = "tool" =>
                          r.id \in DOMAIN tools /\ r.payload = tools[r.id]
    /\ \A k \in Unresolved :
          \A q \in Queries, limit \in Limits, target \in SearchTarget \cup {None} :
              \A res \in service_search(q, target, limit) :
                  \A i \in DOMAIN res : ~(res[i].type = k[1] /\ res[i].id = k[2])

\* a search of everything, with a limit that covers the index, over a store
\* that holds a vector whose entity is in no table next to one that resolves
C14_Witness ==
    /\ last.op = "service_search"
    /\ last.item_type = None
    /\ last.limit >= ntotal(index)
    /\ Unresolved # {}
    /\ \E i \in DOMAIN last.result : last.result[i].type \in VectorTarget

----------------------------------------------------------------------------
(* The result of FaissStore.search *)

\* C15: FaissStore.search(query, k, filter) returns at most k tuples, in order
\* of non-increasing score, each naming a pair the index and the catalog both
\* hold, scored with that pair's vector; with fewer than k vectors in the index
\* the list is no longer than the index, so no placeholder (id -1) is in it.
C15_SearchResult ==
    (last.op = "search" /\ raised = NoError) =>
        /\ Len(last.result) <= last.limit
        /\ Len(last.result) <= ntotal(index)
        /\ \A i \in 1..(Len(last.result) - 1) :
              last.result[i].score >= last.result[i + 1].score
        /\ \A i \in DOMAIN last.result :
              LET hit == last.result[i]
                  key == <<hit.type, hit.entity_id>>
              IN  /\ key \in StoreKeys
                  /\ SlotsOf(index, key) # {}
                  /\ str(VectorIds(key[1], key[2])) \in DOMAIN meta
                  /\ hit.score \in {InnerProduct(embed_texts(last.text), v) :
                                        v \in VectorsOf(index, key)}
                  /\ hit.score # Pad.score
        /\ \A i, j \in DOMAIN last.result :
              (last.result[i].type = last.result[j].type
               /\ last.result[i].entity_id = last.result[j].entity_id) => i = j

\* a search with a limit above the size of the index that returns hits of
\* different scores
C15_Witness ==
    /\ last.op = "search"
    /\ raised = NoError
    /\ last.limit > ntotal(index)
    /\ Len(last.result) >= 2
    /\ last.result[1].score > last.result[Len(last.result)].score

----------------------------------------------------------------------------
(* The life of a vector record *)

ServiceKeys == ({"resource"} \X ResourceIds) \cup ({"tool"} \X ToolIds)

\* the row of a (type, id) in the table of its type, as a set
RowsOf(key) ==
    LET table == IF key[1] = "resource" THEN resources ELSE tools
    IN  IF key[2] \in DOMAIN table THEN {table[key[2]]} ELSE {}

\* the text a row is indexed with
VectorTextOf(key, row) ==
    IF key[1] = "resource" THEN resource_vector_text(row) ELSE tool_vector_text(row)

\* C16: after any sequence of completed create, update and delete calls of
\* ResourceService and ToolService, the catalog holds an entry for a (type, id)
\* exactly when the repository of that type holds a row with that id; the
\* index then holds one vector for it, the embedding of the row as it is now
\* (an update replaces the record in place), and none once it is deleted.
C16_Lifecycle ==
    /\ DOMAIN meta = {str(VectorIds(k[1], k[2])) : k \in {j \in ServiceKeys : RowsOf(j) # {}}}
    /\ \A k \in ServiceKeys :
          IF RowsOf(k) = {}
          THEN SlotsOf(index, k) = {}
          ELSE /\ meta[str(VectorIds(k[1], k[2]))] = [type |-> k[1], entity_id |-> k[2]]
               /\ Cardinality(SlotsOf(index, k)) = 1
               /\ VectorsOf(index, k) = {embed_texts(VectorTextOf(k, row)) : row \in RowsOf(k)}

\* a resource was deleted while a tool that was updated is still there
C16_Witness ==
    /\ last.op = "delete_resource"
    /\ last.prev.present
    /\ resources = EmptyDict
    /\ \E id \in DOMAIN tools : tools[id].code = <<"b">>

----------------------------------------------------------------------------
(* Routing by target *)

TypesIn(res) == {res[i].type : i \in DOMAIN res}

\* C17: SearchService.search with target "prompt" does not query the vector
\* store (it cannot fail in the embedder, and no vector hit is returned: every
\* result is a prompt); with target "resource" or "tool" the prompts are not
\* scanned and every result has the requested type; a result that holds both a
\* vector hit and a prompt hit comes from a search without target.
C17_Routing ==
    /\ last.op = "service_search" =>
          /\ last.item_type = "prompt" =>
                raised = NoError /\ TypesIn(last.result) \subseteq {"prompt"}
          /\ last.item_type \in VectorTarget =>
                TypesIn(last.result) \subseteq {last.item_type}
          /\ ("prompt" \in TypesIn(last.result)
               /\ TypesIn(last.result) \cap VectorTarget # {}) => last.item_type = None
    /\ \A q \in Queries, limit \in Limits :
          /\ service_search(q, "prompt", limit) =
                {truncate(prompt_hits(q, prompts), limit)}
          /\ \A t \in VectorTarget :
                \A res \in service_search(q, t, limit) : TypesIn(res) \subseteq {t}

\* a prompt search that leaves the vectors of a non-empty store out, while the
\* search without target over the same state mixes both kinds
C17_Witness ==
    /\ last.op = "service_search"
    /\ last.item_type = "prompt"
    /\ raised = NoError
    /\ Len(last.result) > 0
    /\ ntotal(index) > 0
    /\ \E res \in service_search(last.text, None, last.limit) :
          "prompt" \in TypesIn(res) /\ TypesIn(res) \cap VectorTarget # {}

----------------------------------------------------------------------------
(* Prompts through the API *)

PromptIdsIn(rows) == {rows[i].id : i \in DOMAIN rows}

PromptRow(rows, id) == rows[CHOOSE i \in DOMAIN rows : rows[i].id = id]

\* GET of an id reports the stored row (200) when the table holds one, and 404
\* when it holds none; no two rows share an id
C18_GetReports ==
    /\ \A i, j \in DOMAIN prompts : prompts[i].id = prompts[j].id => i = j
    /\ last.op = "get_prompt" =>
          IF last.entity_id \in PromptIdsIn(prompts)
          THEN raised = NoError /\ last.result = <<PromptRow(prompts, last.entity_id)>>
          ELSE raised = HTTP_404_NOT_FOUND /\ last.result = <<>>

\* one call, seen from each prompt id: a stored prompt stays stored, with the
\* fields it had, until a delete of its id, which succeeds; an update of its id
\* succeeds and changes what it supplies; an id that is not stored is stored
\* only by a create, and a GET, update or delete of it reports 404
C18_Step ==
    \A id \in PromptIds :
        LET called(op) == last'.op = op /\ last'.entity_id = id
        IN  IF id \in PromptIdsIn(prompts)
            THEN IF called("delete_prompt")
                 THEN raised' = NoError /\ id \notin PromptIdsIn(prompts')
                 ELSE /\ id \in PromptIdsIn(prompts')
                      /\ IF called("update_prompt")
                         THEN /\ raised' = NoError
                              /\ last'.result = <<PromptRow(prompts', id)>>
                              /\ PromptRow(prompts', id).name = PromptRow(prompts, id).name
                              /\ PromptRow(prompts', id).content \in
                                     {u.content : u \in PromptUpdates}
                         ELSE PromptRow(prompts', id) = PromptRow(prompts, id)
                      /\ called("get_prompt") => raised' = NoError
            ELSE IF called("create_prompt")
                 THEN /\ raised' = NoError
                      /\ id \in PromptIdsIn(prompts')
                      /\ last'.result = <<PromptRow(prompts', id)>>
                 ELSE /\ id \notin PromptIdsIn(prompts')
                      /\ (called("get_prompt") \/ called("update_prompt")
                            \/ called("delete_prompt")) =>
                             raised' = HTTP_404_NOT_FOUND /\ prompts' = prompts

\* C18: a prompt created through the API is returned by GET of its id, with
\* the fields stored, in every state from its creation to its deletion, updates
\* included; once deleted, GET, update and delete of that id report not found.
C18_PromptCrud == []C18_GetReports /\ [][C18_Step]_vars

\* a prompt that was updated is deleted, and the GET that follows finds nothing,
\* while the other prompt is still stored
C18_Witness ==
    /\ last.op = "get_prompt"
    /\ raised = HTTP_404_NOT_FOUND
    /\ Len(prompts) = 1
    /\ prompts[1].id # last.entity_id
    /\ prompts[1].content = <<"c", "a", "B">>

----------------------------------------------------------------------------
(* What a search finds *)

\* the resources and tools that exist
Existing == {k \in ServiceKeys : RowsOf(k) # {}}

\* the stored prompts the query occurs in
MatchingPrompts(q) == {i \in DOMAIN prompts : KeywordMatch(q, prompts[i])}

----------------------------------------------------------------------------
(* Partial updates *)

\* new is old with the fields of data set, updated_at set to the time t, and
\* every other field, the id among them, as it was
PartiallyUpdated(old, new, data, t) ==
    /\ DOMAIN new = DOMAIN old
    /\ new.id = old.id
    /\ \A f \in DOMAIN data : new[f] = data[f]
    /\ new.updated_at = t
    /\ \A f \in DOMAIN old \ (DOMAIN data \cup {"updated_at"}) : new[f] = old[f]

\* the entity is in every list a search of its type returns, with the row its
\* table holds, when the limit covers the index
Searchable(item_type, id) ==
    \A q \in Queries, limit \in Limits :
        limit >= ntotal(index) =>
            \A res \in service_search(q, item_type, limit) :
                \E i \in DOMAIN res :
                    /\ res[i].type = item_type /\ res[i].id = id
                    /\ {res[i].payload} = RowsOf(<<item_type, id>>)

\* one update of an entity that exists (the clock does not move during a call)
C20_Step ==
    /\ \A id \in ResourceIds :
          (now' = now /\ last'.op = "update_resource" /\ last'.entity_id = id
           /\ id \in DOMAIN resources) =>
              /\ DOMAIN resources' = DOMAIN resources
              /\ \E data \in ResourceUpdates :
                    PartiallyUpdated(resources[id], resources'[id], data, now')
              /\ \A other \in DOMAIN resources \ {id} : resources'[other] = resources[other]
              /\ tools' = tools /\ prompts' = prompts
              /\ Searchable("resource", id)'
    /\ \A id \in ToolIds :
          (now' = now /\ last'.op = "update_tool" /\ last'.entity_id = id
           /\ id \in DOMAIN tools) =>
              /\ DOMAIN tools' = DOMAIN tools
              /\ \E data \in ToolUpdates :
                    PartiallyUpdated(tools[id], tools'[id], data, now')
              /\ \A other \in DOMAIN tools \ {id} : tools'[other] = tools[other]
              /\ resources' = resources /\ prompts' = prompts
              /\ Searchable("tool", id)'
    /\ \A id \in PromptIds :
          (now' = now /\ last'.op = "update_prompt" /\ last'.entity_id = id
           /\ id \in PromptIdsIn(prompts)) =>
              /\ PromptIdsIn(prompts') = PromptIdsIn(prompts)
              /\ Len(prompts') = Len(prompts)
              /\ \E data \in PromptUpdates :
                    PartiallyUpdated(PromptRow(prompts, id), PromptRow(prompts', id),
                                     data, now')
              /\ \A other \in PromptIdsIn(prompts) \ {id} :
                    PromptRow(prompts', other) = PromptRow(prompts, other)
              /\ resources' = resources /\ tools' = tools

\* C20: an update that supplies only some fields changes those fields and
\* updated_at, and leaves the id and every field it does not supply as they
\* were; the entity stays listed, and a resource or tool stays searchable
\* under the same id.
C20_PartialUpdate == [][C20_Step]_vars

\* a resource created at one time with the content "c" has been updated at a
\* later time: content and updated_at are new, name and category are the old
C20_Witness ==
    /\ last.op = "update_resource"
    /\ now = 1
    /\ \E id \in DOMAIN resources :
          /\ resources[id].updated_at = 1
          /\ resources[id].content = <<"a">>
          /\ resources[id].name = <<"c">>
          /\ resources[id].category = <<"c">>
    /\ \E id \in DOMAIN tools : tools[id].updated_at = 0

----------------------------------------------------------------------------
(* Properties of the JSON-RPC endpoint *)

\* the names of the meta tools
MetaToolNames == {META_TOOL_DEFINITIONS[i].name : i \in DOMAIN META_TOOL_DEFINITIONS}

\* C21: whatever the tool table holds, tools/list answers with the eight meta
\* tools, meta.createResource and meta.searchTools among them, before the
\* stored tools, and then exactly one entry per stored tool.
C21_ToolsList ==
    /\ Cardinality(MetaToolNames) = 8
    /\ {"meta.createResource", "meta.searchTools"} \subseteq MetaToolNames
    /\ \A res \in tools_list(tools) :
          /\ Len(res) = 8 + Cardinality(DOMAIN tools)
          /\ \A i \in 1..8 : ~res[i].stored
          /\ {res[i].name : i \in 1..8} = MetaToolNames
          /\ \A i \in 9..Len(res) : res[i].stored
          /\ \A id \in DOMAIN tools :
                Cardinality({i \in 9..Len(res) : res[i].name = tools[id].name}) = 1
    /\ last.op = "tools/list" => last.result \in tools_list(tools)

\* tools/list answered while a tool is stored
C21_Witness ==
    /\ last.op = "tools/list"
    /\ DOMAIN tools # {}
    /\ Len(last.result) = 9

----------------------------------------------------------------------------
(* Properties of failed and interrupted calls *)

\* the call that just ended was an upsert that failed in the embedder, of a
\* (type, id) that was indexed
FailedReupsert ==
    /\ last.op = "add_or_update"
    /\ raised = "EmbeddingFailure"
    /\ last.prev.present

\* C22: when embedding fails in an upsert of an entity that is indexed, the
\* caller gets the error and the store is as before the call: the previous
\* vector is in the index, the catalog entry is there, the files hold both, and
\* some search returns the entity.
C22_FailedUpsertKeepsStore ==
    FailedReupsert =>
        LET key == <<last.item_type, last.entity_id>>
        IN  /\ VectorsOf(index, key) = {embed_texts(last.prev.text)}
            /\ str(VectorIds(key[1], key[2])) \in DOMAIN meta
            /\ _load_index(indexFile) = index
            /\ _load_meta(metaFile) = meta
            /\ \E res \in AllSearches(index, meta) : HitsOf(res, key) # {}

\* what the code does leave after such a call: the catalog entry and both files
\* as before (the files still hold the previous vector), and the index in
\* memory without a vector for the entity, so that no search returns it
C22_FailedUpsertDropsVector ==
    FailedReupsert =>
        LET key == <<last.item_type, last.entity_id>>
        IN  /\ SlotsOf(index, key) = {}
            /\ str(VectorIds(key[1], key[2])) \in DOMAIN meta
            /\ VectorsOf(_load_index(indexFile), key) = {embed_texts(last.prev.text)}
            /\ _load_meta(metaFile) = meta
            /\ \A res \in AllSearches(index, meta) : HitsOf(res, key) = {}

\* an upsert of an indexed entity failed while another entity was indexed
C22_Witness ==
    /\ FailedReupsert
    /\ Len(index) >= 1

----------------------------------------------------------------------------
(* Properties of filtered search *)

\* the (type, id) pairs of one type that are indexed
IndexedOfType(f) == {key \in StoreKeys : key[1] = f /\ upserted[key].present}

\* the score of an indexed (type, id) for a query
ScoreOf(q, key) == InnerProduct(embed_texts(q), embed_texts(upserted[key].text))

\* C23: a search filtered by type with limit k returns the k best indexed
\* entities of that type, all of them when there are fewer than k: none is left
\* out while fewer than k are returned, or while one returned scores lower,
\* whatever entities of the other type are indexed.
C23_FilteredTopK ==
    \A q \in Queries, k \in Limits, f \in VectorTarget :
        \A res \in search(index, meta, q, k, f) :
            LET n == Cardinality(IndexedOfType(f))
            IN  /\ Len(res) = IF n < k THEN n ELSE k
                /\ \A key \in IndexedOfType(f) :
                      HitsOf(res, key) = {} =>
                          \A i \in DOMAIN res : res[i].score >= ScoreOf(q, key)

\* a search for resources came back empty while a resource was indexed
C23_Witness ==
    /\ last.op = "search"
    /\ last.item_type = "resource"
    /\ last.result = <<>>
    /\ IndexedOfType("resource") # {}

\* the two files agree: the index on disk holds exactly the vector ids the
\* catalog on disk has entries for
FilesConsistent == IdsOnDisk = DOMAIN _load_meta(metaFile)

\* a step in which the process dies inside delete, the files agreeing before it
DeleteCrashStep ==
    /\ last'.op = "delete_crash"
    /\ raised' = "Crash"
    /\ FilesConsistent

\* C24: when the process dies inside delete, at whatever point, the files
\* having agreed before the call, the files left hold no catalog entry whose
\* vector id the index on disk lacks, and the store restarted from them has
\* index and catalog in lockstep.
C24_Step ==
    DeleteCrashStep =>
        /\ DOMAIN _load_meta(metaFile') \subseteq IdsOnDisk'
        /\ C1_Lockstep'

C24_DeleteCrashSafe == [][C24_Step]_vars

\* the process died between the two writes of a delete of an indexed entity
C24_Witness ==
    /\ last.op = "delete_crash"
    /\ last.writes_done = 1
    /\ last.prev.present
    /\ DOMAIN _load_meta(metaFile) \ IdsOnDisk # {}

----------------------------------------------------------------------------
(* Properties of concurrent calls *)

\* no thread is inside a call of the store
AllIdle == \A t \in Threads : threads[t].op = "idle"

\* C25: when upserts of one (type, id) run in two threads at once, with no
\* lock, then whatever the interleaving of their steps, once both have
\* returned the index holds exactly one vector under that vector id.
C25_OneVectorAfterRace ==
    AllIdle =>
        \A key \in ConcurrentKeys :
            upserted[key].present => Cardinality(SlotsOf(index, key)) = 1

\* both upserts have returned and the index holds two vectors under the id
C25_Witness ==
    /\ AllIdle
    /\ last.op = "add_or_update"
    /\ \E key \in ConcurrentKeys : Cardinality(SlotsOf(index, key)) = 2

\* thread u is inside an update of an entity the index held when the call
\* began, and thread s is about to query the index
SearchDuringUpdate(u, s) ==
    /\ threads[u].op = "add_or_update"
    /\ threads[u].prev
    /\ threads[s].op = "search"
    /\ threads[s].pc = "index_search"

\* C26: a search that runs while an indexed entity is being upserted again sees
\* the entity in the index, with its old or its new vector: at no point of the
\* update does the query of the index come back without the entity's vector id.
C26_SearchSeesEntity ==
    \A u, s \in Threads :
        SearchDuringUpdate(u, s) =>
            \A raw \in index_search(index, embed_texts(threads[s].text),
                                    threads[s].limit) :
                \E i \in DOMAIN raw :
                    raw[i].id = VectorIds(threads[u].item_type, threads[u].entity_id)

\* the search got its candidates between remove_ids and add_with_ids of the
\* update, and the entity's vector id is not among them
C26_Witness ==
    \E u, s \in Threads :
        /\ threads[u].op = "add_or_update"
        /\ threads[u].prev
        /\ threads[u].pc = "add_with_ids"
        /\ threads[s].op = "search"
        /\ threads[s].pc = "resolve"
        /\ \A i \in DOMAIN threads[s].raw :
              threads[s].raw[i].id #
                 VectorIds(threads[u].item_type, threads[u].entity_id)

----------------------------------------------------------------------------
(* Algebraic and frame properties *)

\* a step that is the second of two add_or_update calls in a row with the same
\* arguments, both completed
RepeatedUpsert ==
    /\ last.op = "add_or_update" /\ raised = NoError
    /\ last'.op = "add_or_update" /\ raised' = NoError
    /\ last'.item_type = last.item_type
    /\ last'.entity_id = last.entity_id
    /\ last'.text = last.text

\* C27: add_or_update called a second time in a row with the same arguments
\* leaves the index, the catalog and both files as the first call left them,
\* the index holding one vector under the id, the embedding of the text.
C27_Step ==
    RepeatedUpsert =>
        LET key == <<last.item_type, last.entity_id>>
        IN  /\ index' = index
            /\ meta' = meta
            /\ indexFile' = indexFile
            /\ metaFile' = metaFile
            /\ Cardinality(SlotsOf(index', key)) = 1
            /\ VectorsOf(index', key) = {embed_texts(last.text)}

C27_UpsertIdempotent == [][C27_Step]_vars

\* an upsert of a (type, id) with the text it was last upserted with, another
\* entity being indexed
C27_Witness ==
    /\ last.op = "add_or_update"
    /\ raised = NoError
    /\ last.prev = [present |-> TRUE, text |-> last.text]
    /\ Len(index) >= 2

\* the kinds and ids of the vector records of a catalog
RecordsOf(m) == {<<m[k].type, m[k].entity_id>> : k \in DOMAIN m}

\* no vector record stands for a prompt, in memory or on disk, and no search of
\* the store returns one
C28_NoPromptRecord ==
    /\ \A rec \in RecordsOf(meta) \cup RecordsOf(_load_meta(metaFile)) :
          rec[1] \in VectorTarget /\ rec[2] \notin PromptIds
    /\ Len(index) = Cardinality(RecordsOf(meta))

\* a step that creates, updates or deletes a prompt leaves the index, the
\* catalog and both files as they were
C28_Step ==
    last'.op \in {"create_prompt", "update_prompt", "delete_prompt"} =>
        /\ index' = index
        /\ meta' = meta
        /\ indexFile' = indexFile
        /\ metaFile' = metaFile

\* C28: creating, updating or deleting a prompt never changes the index, the
\* catalog or their files, and no sequence of prompt operations adds or removes
\* a vector record: the store holds records of resources and tools only.
C28_PromptsOutsideStore == []C28_NoPromptRecord /\ [][C28_Step]_vars

\* a prompt was deleted, after another was stored, while the store holds vectors
C28_Witness ==
    /\ last.op = "delete_prompt"
    /\ raised = NoError
    /\ Len(prompts) >= 1
    /\ Len(index) >= 2

\* the table a service call is about
TableOf(item_type) == IF item_type = "resource" THEN resources ELSE tools

\* a step that is an update or a delete, through its service, of a resource or
\* tool id that is not stored (and not the clock's)
MissingIdStep ==
    /\ now' = now
    /\ last'.op \in {"update_resource", "update_tool", "delete_resource", "delete_tool"}
    /\ last'.entity_id \notin DOMAIN TableOf(last'.item_type)

\* C29: an update of a resource or tool id that is not stored returns None and
\* a delete of one returns False, without error; the vector store is not
\* called: index, catalog and both files are as before, and so are the tables.
C29_Step ==
    MissingIdStep =>
        /\ last'.result = IF last'.op \in {"update_resource", "update_tool"}
                          THEN <<>> ELSE <<FALSE>>
        /\ raised' = NoError
        /\ index' = index
        /\ meta' = meta
        /\ indexFile' = indexFile
        /\ metaFile' = metaFile
        /\ resources' = resources
        /\ tools' = tools

C29_MissingIdNoOp == [][C29_Step]_vars

\* a delete of a resource id that is not stored, the store holding a tool
C29_Witness ==
    /\ last.op = "delete_resource"
    /\ last.result = <<FALSE>>
    /\ Len(index) >= 1

----------------------------------------------------------------------------
(* Stability of the merge *)

\* where a result stands among the hits as SearchService.search collects them:
\* a vector hit at its place in the list the store returned, a prompt hit after
\* all of them, at its place in the listing of the prompts
PlaceOf(r, hits) ==
    IF r.type = "prompt"
    THEN Len(hits) + (CHOOSE i \in DOMAIN prompts : prompts[i].id = r.id)
    ELSE CHOOSE i \in DOMAIN hits :
            hits[i].type = r.type /\ hits[i].entity_id = r.id

\* r comes before s in the ranking: a higher score, or the same score and an
\* earlier place
Before(r, s, hits) ==
    \/ r.score > s.score
    \/ r.score = s.score /\ PlaceOf(r, hits) < PlaceOf(s, hits)

\* C30: the results come by descending score and, among equal scores, in the
\* order of collection: vector hits as the index returned them, then prompt
\* hits as the repository lists them, so that a vector hit scoring 0.5 comes
\* before the prompt hits; and the cut to `limit` is made on that order: what
\* is left out comes after everything returned.
C30_StableMerge ==
    /\ (last.op = "service_search" /\ raised = NoError) =>
          last.result \in service_search(last.text, last.item_type, last.limit)
    /\ \A q \in Queries, target \in SearchTarget \cup {None}, limit \in Limits :
          \A hits \in IF queries_store(target)
                      THEN search(index, meta, q, limit,
                                  IF target \in VectorTarget THEN target ELSE None)
                      ELSE { <<>> } :
              LET merged == resolved_hits(hits, resources, tools)
                               \o (IF scans_prompts(target) THEN prompt_hits(q, prompts)
                                   ELSE <<>>)
                  res == truncate(sorted_by_score(merged), limit)
                  out == {merged[p] : p \in DOMAIN merged} \ {res[i] : i \in DOMAIN res}
              IN  /\ res \in service_search(q, target, limit)
                  /\ Len(res) = IF Len(merged) < limit THEN Len(merged) ELSE limit
                  /\ \A i, j \in DOMAIN res : i < j => Before(res[i], res[j], hits)
                  /\ \A i, j \in DOMAIN res :
                        (i < j /\ res[i].score = res[j].score) =>
                            ~(res[i].type = "prompt" /\ res[j].type # "prompt")
                  /\ \A r \in out : \A i \in DOMAIN res : Before(res[i], r, hits)

\* a search returned two vector hits of one score, and a prompt hit was left
\* out by the cut although it scores as much as a vector hit returned
C30_Witness ==
    /\ last.op = "service_search"
    /\ last.item_type = None
    /\ Len(last.result) = 2
    /\ last.result[1].type # "prompt" /\ last.result[2].type # "prompt"
    /\ last.result[1].score = KeywordScore /\ last.result[2].score = KeywordScore
    /\ MatchingPrompts(last.text) # {}

====
